---- MODULE Spec2Model ----
(***************************************************************************)
(* A model of the AceMarket paper-trading engine: the Portfolio state      *)
(* machine of backend/portfolio.py (cash, signed positions, fills,         *)
(* admission checks, trade log, equity curve) and the bar-by-bar driver of *)
(* backend/backtest.py.                                                    *)
(*                                                                         *)
(* Units.  The code computes in binary floating point; the model computes  *)
(* the same expressions exactly, in fixed point:                           *)
(*   quantities        hundredths of a share (round(.., 2) in _round_qty)  *)
(*   money             cents                                               *)
(*   raw closes        whole dollars; fill prices in cents per share       *)
(*   slippage, commission, max_position_pct, min_cash_reserve_pct,         *)
(*   short_margin_requirement                                              *)
(*                     percent (1 stands for the decimal 0.01)             *)
(*   avg_price, realized_pnl                                               *)
(*                     exact rationals [n, d] (cents per share, cents)     *)
(* Comparisons against a percentage of an amount are made on both sides    *)
(* multiplied by 100, so no rounding takes place in them.  The tolerances  *)
(* 1e-9 and 1e-6 of the code are smaller than one unit of these scaled     *)
(* integers, so "x > y + 1e-9" is "x > y" here.                            *)
(***************************************************************************)
EXTENDS Integers, Sequences, FiniteSets, TLC

\* Hundredths: quantities per share, cents per dollar, percent per unit.
CENTI == 100

\* Number of fills after which the model stops issuing orders.
MaxTrades == 2

\* Daily closes, in whole dollars, of the two symbols (bar 0 first).
Close == [A |-> <<10, 20>>, B |-> <<100, 90>>]

Symbols == DOMAIN Close

\* Bar positions 0..N-1 of a symbol's price frame (stock.df.index.size == N).
Size(stock) == Len(Close[stock])

Bars == 0 .. (Size("A") - 1)

-----------------------------------------------------------------------------
(* Exact rational arithmetic for the two quantities the code divides.      *)

Abs(x) == IF x < 0 THEN -x ELSE x

Min(a, b) == IF a <= b THEN a ELSE b

Max(a, b) == IF a >= b THEN a ELSE b

RECURSIVE GCD(_, _)
GCD(a, b) == IF b = 0 THEN a ELSE GCD(b, a % b)

Rat(n, d) ==
    LET g == GCD(Abs(n), Abs(d))
        s == IF d < 0 THEN -1 ELSE 1
    IN  [n |-> (s * n) \div g, d |-> (s * d) \div g]

RatInt(k) == [n |-> k, d |-> 1]

RatAdd(x, y) == Rat(x.n * y.d + y.n * x.d, x.d * y.d)

RatSub(x, y) == Rat(x.n * y.d - y.n * x.d, x.d * y.d)

RatMulInt(x, k) == Rat(x.n * k, x.d)

RatDivInt(x, k) == Rat(x.n, x.d * k)

\* x * q / 100 for a per-share amount x and a quantity q in hundredths.
RatTimesQty(x, q) == RatDivInt(RatMulInt(x, q), CENTI)

-----------------------------------------------------------------------------
(* State.                                                                  *)

VARIABLES
    settings,      \* the user's settings as applied to the Portfolio's attributes
    sizes,         \* the order quantities the client submits in this scenario
    cash,          \* Portfolio.cash
    positions,     \* Portfolio._positions: symbol -> [quantity, avg_price, realized_pnl]
    realized,      \* Portfolio._realized: symbol -> realized pnl
    trade_log,     \* Portfolio.trade_log
    equity_curve,  \* Portfolio.equity_curve
    last,          \* the most recent call and how it ended ("ok" or the error raised)
    bt,            \* the Backtest driver: resolved window, loop position, strategy calls
    sb,            \* create_strategy_from_code: caller, worker thread, elapsed seconds
    orch,          \* run_strategy_endpoint: the request in hand and how it ended
    tables,        \* the database: the portfolios row and the runs rows of the user
    limiter,       \* _rate_limit_store and the wall clock
    auth,          \* config.DISABLE_AUTH as set at import, and the latest verify_token call
    cache          \* _stock_cache, the wall clock, and the get_stock calls in progress

portfolio == <<cash, positions, realized, trade_log, equity_curve>>

\* The state of the services around the engine (sandbox, orchestrator,
\* persistence, rate limiter, authentication, stock cache).
services == <<sb, orch, tables, limiter, auth, cache>>

vars == <<settings, sizes, cash, positions, realized, trade_log, equity_curve, last, bt,
          sb, orch, tables, limiter, auth, cache>>

-----------------------------------------------------------------------------
(* Price series (backend/stock.py).                                        *)

\* Stock.to_iloc for an integer position: clamped to [0, N-1].
to_iloc(stock, index) == Min(Max(0, index), Size(stock) - 1)

\* Stock.price(i): the close of bar i, in whole dollars.
price(stock, index) == Close[stock][to_iloc(stock, index) + 1]

-----------------------------------------------------------------------------
(* Dictionaries: a Python dict is a function on the set of its keys.       *)

EmptyDict == [k \in {} |-> 0]

Get(dict, key, default) == IF key \in DOMAIN dict THEN dict[key] ELSE default

Put(dict, key, value) == (key :> value) @@ dict

Pop(dict, key) == [k \in (DOMAIN dict) \ {key} |-> dict[k]]

RECURSIVE SumOver(_, _)
SumOver(f, keys) ==
    IF keys = {} THEN 0
    ELSE LET k == CHOOSE x \in keys : TRUE
         IN  f[k] + SumOver(f, keys \ {k})

-----------------------------------------------------------------------------
(* Portfolio: rounding, fill pricing, commission.                          *)

\* Python's round(q / inc): the nearest integer, a tie going to the even one.
RoundHalfEven(q, inc) ==
    LET k == q \div inc
        r == q % inc
    IN  IF 2 * r < inc THEN k
        ELSE IF 2 * r > inc THEN k + 1
        ELSE IF k % 2 = 0 THEN k ELSE k + 1

\* Whether the increment pct/100 is a binary fraction, so that qty / inc is
\* computed without error at a tie.
Dyadic(pct) == (CENTI \div GCD(pct, CENTI)) \in {1, 2, 4}

\* Portfolio._round_qty: the set of results the float computation can give.
\* With inc >= 1 it is round(qty), whole shares.  Otherwise it is
\* round(round(qty / inc) * inc, 2); for an increment that is no binary
\* fraction (0.1) the quotient at a tie is off the half by a rounding error
\* of either sign (0.15 / 0.1 < 1.5, 0.25 / 0.1 = 2.5), so a tie may go
\* to either neighbour.
_round_qty(qty) ==
    LET pct == IF settings.share_min_pct = 0 THEN CENTI ELSE settings.share_min_pct
        k   == qty \div pct
    IN  IF pct >= CENTI
        THEN {CENTI * RoundHalfEven(qty, CENTI)}
        ELSE IF 2 * (qty % pct) = pct /\ ~Dyadic(pct)
             THEN {pct * k, pct * (k + 1)}
             ELSE {pct * RoundHalfEven(qty, pct)}

\* Portfolio._slippage_factor, in percent: slip for a buy, -slip for a sell.
\* Settings keep slippage in [0, 1), so its ValueError is not raised.
_slippage_factor(side) == IF side = "buy" THEN settings.slippage ELSE -settings.slippage

\* Portfolio._fill_price: cents per share.  The side is "buy" or "sell" at
\* every call, so "Invalid side" is not raised.
_fill_price(side, raw_price) ==
    LET slip == _slippage_factor(side)
    IN  IF side = "buy"
        THEN raw_price * (CENTI + slip)
        ELSE raw_price * (CENTI - slip)

\* A faulty _compute_commission: the percentage commission is charged on top
\* of the flat one.
_compute_commission_stacked(quantity, notional) ==
    settings.commission_per_order
        + (settings.commission_per_share * Abs(quantity)) \div CENTI
        + (notional * settings.commission) \div CENTI

\* Portfolio._compute_commission, in cents.
_compute_commission(quantity, notional) ==
    LET per_order == settings.commission_per_order
        per_share == settings.commission_per_share
        pct       == settings.commission
    IN  IF per_order > 0 \/ per_share > 0
        THEN per_order + (per_share * Abs(quantity)) \div CENTI
        ELSE IF pct > 0
             THEN (notional * pct) \div CENTI
             ELSE 0

\* Portfolio._trade_meta: the bar position a fill is recorded at.
_trade_meta(stock, index) == Max(0, Min(index, Size(stock) - 1))

-----------------------------------------------------------------------------
(* Portfolio: valuation and reserved cash.                                 *)

\* Portfolio._positions_view: symbol -> signed quantity.
_positions_view == [s \in DOMAIN positions |-> positions[s].quantity]

\* Sum of price(index) * qty over a view, in cents.
MarketValue(view, index) ==
    SumOver([s \in DOMAIN view |-> price(s, index) * view[s]], DOMAIN view)

\* Sum of price(index) * |qty| over the short entries of a view, in cents.
ShortValue(view, index) ==
    SumOver([s \in DOMAIN view |->
                IF view[s] < 0 THEN price(s, index) * Abs(view[s]) ELSE 0],
            DOMAIN view)

\* Portfolio.get_value(index).
get_value(index) == cash + MarketValue(_positions_view, index)

\* Portfolio.get_short_market_value(index).
get_short_market_value(index) == ShortValue(_positions_view, index)

\* A faulty get_reserved_cash: short positions are reserved at their market
\* value, without the margin requirement.
get_reserved_cash100_at_par(index) ==
    LET equity        == get_value(index)
        short_mv      == get_short_market_value(index)
        short_reserve == IF short_mv > 0 THEN CENTI * short_mv ELSE 0
        cash_reserve  == IF settings.min_cash_reserve_pct # 0
                         THEN settings.min_cash_reserve_pct * Max(0, equity) ELSE 0
    IN  short_reserve + cash_reserve

\* Portfolio.get_reserved_cash(index), times 100:
\* short_margin_requirement * short_mv + min_cash_reserve_pct * max(0, equity).
get_reserved_cash100(index) ==
    LET equity        == get_value(index)
        short_mv      == get_short_market_value(index)
        short_reserve == IF short_mv > 0
                         THEN settings.short_margin_requirement * short_mv ELSE 0
        cash_reserve  == IF settings.min_cash_reserve_pct # 0
                         THEN settings.min_cash_reserve_pct * Max(0, equity) ELSE 0
    IN  short_reserve + cash_reserve

\* Portfolio.get_buying_power(index), times 100.
get_buying_power100(index) == CENTI * cash - get_reserved_cash100(index)

\* A faulty _reserved_cash_projected: the collateral of short positions is
\* left out of the projection.
_reserved_cash_projected100_no_margin(cash_after, positions_after, index) ==
    LET equity == cash_after + MarketValue(positions_after, index)
    IN  IF settings.min_cash_reserve_pct # 0
        THEN settings.min_cash_reserve_pct * Max(0, equity) ELSE 0

\* Portfolio._reserved_cash_projected, times 100.
_reserved_cash_projected100(cash_after, positions_after, index) ==
    LET equity        == cash_after + MarketValue(positions_after, index)
        short_mv      == ShortValue(positions_after, index)
        short_reserve == IF short_mv > 0
                         THEN settings.short_margin_requirement * short_mv ELSE 0
        cash_reserve  == IF settings.min_cash_reserve_pct # 0
                         THEN settings.min_cash_reserve_pct * Max(0, equity) ELSE 0
    IN  short_reserve + cash_reserve

-----------------------------------------------------------------------------
(* Portfolio: admission.                                                   *)

\* An admission that lets a new symbol in while max_positions are open.
_check_order_common_one_over(stock, side, quantity, trade_index, trade_value, cost_cash_change) ==
    LET equity_pre      == get_value(trade_index)
        cur_qty         == Get(_positions_view, stock, 0)
        delta_qty       == IF side = "buy" THEN quantity ELSE -quantity
        post_qty        == cur_qty + delta_qty
        positions_after == IF post_qty = 0
                           THEN Pop(_positions_view, stock)
                           ELSE Put(_positions_view, stock, post_qty)
        cash_after      == cash + cost_cash_change
        reserved_after  == _reserved_cash_projected100(cash_after, positions_after, trade_index)
        buying_power_after == CENTI * cash_after - reserved_after
    IN  IF quantity <= 0
        THEN "Quantity must be positive"
        ELSE IF settings.max_order_qty # 0 /\ quantity > CENTI * settings.max_order_qty
        THEN "Order qty exceeds max_order_qty"
        ELSE IF settings.min_trade_value # 0 /\ trade_value < settings.min_trade_value
        THEN "Trade value is below minimum"
        ELSE IF settings.max_trade_value # 0 /\ trade_value > settings.max_trade_value
        THEN "Trade value exceeds maximum"
        ELSE IF /\ stock \notin DOMAIN positions
                /\ settings.max_positions # 0
                /\ Cardinality(DOMAIN positions) > settings.max_positions
        THEN "Max positions reached"
        ELSE IF /\ settings.max_position_pct # 0
                /\ equity_pre > 0
                /\ CENTI * trade_value > equity_pre * settings.max_position_pct
        THEN "Trade exceeds max_position_pct cap"
        ELSE IF /\ side = "buy"
                /\ settings.min_cash_reserve_pct # 0
                /\ equity_pre > 0
                /\ CENTI * (cash - trade_value) < equity_pre * settings.min_cash_reserve_pct
        THEN "Trade would violate cash reserve"
        ELSE IF cost_cash_change < 0 /\ cash < Abs(cost_cash_change)
        THEN "Not enough cash to enter position"
        ELSE IF buying_power_after < 0
        THEN "Insufficient buying power (margin)"
        ELSE "ok"

\* Portfolio._check_order_common: "ok", or the message of the ValueError the
\* first failing check raises.  trade_value and cost_cash_change in cents.
_check_order_common(stock, side, quantity, trade_index, trade_value, cost_cash_change) ==
    LET equity_pre      == get_value(trade_index)
        cur_qty         == Get(_positions_view, stock, 0)
        delta_qty       == IF side = "buy" THEN quantity ELSE -quantity
        post_qty        == cur_qty + delta_qty
        positions_after == IF post_qty = 0
                           THEN Pop(_positions_view, stock)
                           ELSE Put(_positions_view, stock, post_qty)
        cash_after      == cash + cost_cash_change
        reserved_after  == _reserved_cash_projected100(cash_after, positions_after, trade_index)
        buying_power_after == CENTI * cash_after - reserved_after
    IN  IF quantity <= 0
        THEN "Quantity must be positive"
        ELSE IF settings.max_order_qty # 0 /\ quantity > CENTI * settings.max_order_qty
        THEN "Order qty exceeds max_order_qty"
        ELSE IF settings.min_trade_value # 0 /\ trade_value < settings.min_trade_value
        THEN "Trade value is below minimum"
        ELSE IF settings.max_trade_value # 0 /\ trade_value > settings.max_trade_value
        THEN "Trade value exceeds maximum"
        ELSE IF /\ stock \notin DOMAIN positions
                /\ settings.max_positions # 0
                /\ Cardinality(DOMAIN positions) >= settings.max_positions
        THEN "Max positions reached"
        ELSE IF /\ settings.max_position_pct # 0
                /\ equity_pre > 0
                /\ CENTI * trade_value > equity_pre * settings.max_position_pct
        THEN "Trade exceeds max_position_pct cap"
        ELSE IF /\ side = "buy"
                /\ settings.min_cash_reserve_pct # 0
                /\ equity_pre > 0
                /\ CENTI * (cash - trade_value) < equity_pre * settings.min_cash_reserve_pct
        THEN "Trade would violate cash reserve"
        ELSE IF cost_cash_change < 0 /\ cash < Abs(cost_cash_change)
        THEN "Not enough cash to enter position"
        ELSE IF buying_power_after < 0
        THEN "Insufficient buying power (margin)"
        ELSE "ok"

-----------------------------------------------------------------------------
(* Portfolio: position updates of the three kinds of fill.                 *)

Zero == RatInt(0)

\* A buy through a short whose residual long keeps the basis of the short.
LongUpdateKeepingBasis(stock, quantity, px) ==
    IF stock \notin DOMAIN positions
    THEN [positions |-> Put(positions, stock,
                            [quantity     |-> quantity,
                             avg_price    |-> RatInt(px),
                             realized_pnl |-> Get(realized, stock, Zero)]),
          realized  |-> realized,
          pnl       |-> Zero]
    ELSE LET pos  == positions[stock]
             qty0 == pos.quantity
             avg0 == pos.avg_price
         IN  IF qty0 >= 0
             THEN LET new_qty == qty0 + quantity
                      new_avg == IF new_qty # 0
                                 THEN RatDivInt(RatAdd(RatMulInt(avg0, qty0),
                                                       RatInt(px * quantity)), new_qty)
                                 ELSE Zero
                  IN  [positions |-> Put(positions, stock,
                                         [pos EXCEPT !.quantity = new_qty,
                                                     !.avg_price = new_avg]),
                       realized  |-> realized,
                       pnl       |-> Zero]
             ELSE LET cover_qty == Min(quantity, Abs(qty0))
                      pnl       == RatTimesQty(RatSub(avg0, RatInt(px)), cover_qty)
                      remaining == quantity - cover_qty
                      new_qty   == qty0 + cover_qty
                      total     == RatAdd(Get(realized, stock, Zero), pnl)
                  IN  [positions |->
                          IF new_qty = 0 /\ remaining = 0
                          THEN Pop(positions, stock)
                          ELSE IF new_qty = 0 /\ remaining > 0
                          THEN Put(positions, stock,
                                   [quantity     |-> remaining,
                                    avg_price    |-> avg0,
                                    realized_pnl |-> total])
                          ELSE Put(positions, stock,
                                   [pos EXCEPT !.quantity = new_qty,
                                               !.realized_pnl = total]),
                       realized  |-> IF pnl # Zero
                                     THEN Put(realized, stock, total)
                                     ELSE realized,
                       pnl       |-> pnl]

\* enter_position_long, the update of _positions and _realized for an accepted
\* buy of `quantity` at fill price px: the new maps and the event's realized pnl.
LongUpdate(stock, quantity, px) ==
    IF stock \notin DOMAIN positions
    THEN [positions |-> Put(positions, stock,
                            [quantity     |-> quantity,
                             avg_price    |-> RatInt(px),
                             realized_pnl |-> Get(realized, stock, Zero)]),
          realized  |-> realized,
          pnl       |-> Zero]
    ELSE LET pos  == positions[stock]
             qty0 == pos.quantity
             avg0 == pos.avg_price
         IN  IF qty0 >= 0
             THEN LET new_qty == qty0 + quantity
                      new_avg == IF new_qty # 0
                                 THEN RatDivInt(RatAdd(RatMulInt(avg0, qty0),
                                                       RatInt(px * quantity)), new_qty)
                                 ELSE Zero
                  IN  [positions |-> Put(positions, stock,
                                         [pos EXCEPT !.quantity = new_qty,
                                                     !.avg_price = new_avg]),
                       realized  |-> realized,
                       pnl       |-> Zero]
             ELSE LET cover_qty == Min(quantity, Abs(qty0))
                      pnl       == RatTimesQty(RatSub(avg0, RatInt(px)), cover_qty)
                      remaining == quantity - cover_qty
                      new_qty   == qty0 + cover_qty
                      total     == RatAdd(Get(realized, stock, Zero), pnl)
                  IN  [positions |->
                          IF new_qty = 0 /\ remaining = 0
                          THEN Pop(positions, stock)
                          ELSE IF new_qty = 0 /\ remaining > 0
                          THEN Put(positions, stock,
                                   [quantity     |-> remaining,
                                    avg_price    |-> RatInt(px),
                                    realized_pnl |-> total])
                          ELSE Put(positions, stock,
                                   [pos EXCEPT !.quantity = new_qty,
                                               !.realized_pnl = total]),
                       realized  |-> IF pnl # Zero
                                     THEN Put(realized, stock, total)
                                     ELSE realized,
                       pnl       |-> pnl]

\* enter_position_short, the same for an accepted sell of `quantity` at px.
ShortUpdate(stock, quantity, px) ==
    IF stock \notin DOMAIN positions
    THEN [positions |-> Put(positions, stock,
                            [quantity     |-> -quantity,
                             avg_price    |-> RatInt(px),
                             realized_pnl |-> Get(realized, stock, Zero)]),
          realized  |-> realized,
          pnl       |-> Zero]
    ELSE LET pos  == positions[stock]
             qty0 == pos.quantity
             avg0 == pos.avg_price
         IN  IF qty0 <= 0
             THEN LET new_qty == qty0 - quantity
                      old_abs == Abs(qty0)
                      new_abs == Abs(new_qty)
                      new_avg == IF new_abs # 0
                                 THEN RatDivInt(RatAdd(RatMulInt(avg0, old_abs),
                                                       RatInt(px * quantity)), new_abs)
                                 ELSE Zero
                  IN  [positions |-> Put(positions, stock,
                                         [pos EXCEPT !.quantity = new_qty,
                                                     !.avg_price = new_avg]),
                       realized  |-> realized,
                       pnl       |-> Zero]
             ELSE LET sell_qty  == Min(quantity, qty0)
                      pnl       == RatTimesQty(RatSub(RatInt(px), avg0), sell_qty)
                      remaining == quantity - sell_qty
                      new_qty   == qty0 - sell_qty
                      total     == RatAdd(Get(realized, stock, Zero), pnl)
                  IN  [positions |->
                          IF new_qty = 0 /\ remaining = 0
                          THEN Pop(positions, stock)
                          ELSE IF new_qty = 0 /\ remaining > 0
                          THEN Put(positions, stock,
                                   [quantity     |-> -remaining,
                                    avg_price    |-> RatInt(px),
                                    realized_pnl |-> total])
                          ELSE Put(positions, stock,
                                   [pos EXCEPT !.quantity = new_qty,
                                               !.realized_pnl = total]),
                       realized  |-> IF pnl # Zero
                                     THEN Put(realized, stock, total)
                                     ELSE realized,
                       pnl       |-> pnl]

\* A faulty ExitUpdate: the pnl of an exit from a short position is taken as
\* that of a long one, fill minus basis.
ExitUpdateLongPnl(stock, quantity, px, commission) ==
    LET pos      == positions[stock]
        qty0     == pos.quantity
        avg0     == pos.avg_price
        gross    == RatTimesQty(RatSub(RatInt(px), avg0), quantity)
        pnl      == RatSub(gross, RatInt(commission))
        new_qty  == IF qty0 > 0 THEN qty0 - quantity ELSE qty0 + quantity
        total    == RatAdd(Get(realized, stock, Zero), pnl)
    IN  [positions |-> IF new_qty = 0
                       THEN Pop(positions, stock)
                       ELSE Put(positions, stock,
                                [pos EXCEPT !.quantity = new_qty,
                                            !.realized_pnl = total]),
         realized  |-> Put(realized, stock, total),
         pnl       |-> pnl]

\* A faulty ExitUpdate: the quantity is subtracted whatever the side, so an
\* exit from a short position makes it larger.
ExitUpdateSubtracting(stock, quantity, px, commission) ==
    LET pos      == positions[stock]
        qty0     == pos.quantity
        avg0     == pos.avg_price
        gross    == IF qty0 > 0
                    THEN RatTimesQty(RatSub(RatInt(px), avg0), quantity)
                    ELSE RatTimesQty(RatSub(avg0, RatInt(px)), quantity)
        pnl      == RatSub(gross, RatInt(commission))
        new_qty  == qty0 - quantity
        total    == RatAdd(Get(realized, stock, Zero), pnl)
    IN  [positions |-> IF new_qty = 0
                       THEN Pop(positions, stock)
                       ELSE Put(positions, stock,
                                [pos EXCEPT !.quantity = new_qty,
                                            !.realized_pnl = total]),
         realized  |-> Put(realized, stock, total),
         pnl       |-> pnl]

\* A faulty ExitUpdate: the realized table is updated, the realized_pnl
\* field of the position that stays open is not.
ExitUpdateStalePosition(stock, quantity, px, commission) ==
    LET pos      == positions[stock]
        qty0     == pos.quantity
        avg0     == pos.avg_price
        gross    == IF qty0 > 0
                    THEN RatTimesQty(RatSub(RatInt(px), avg0), quantity)
                    ELSE RatTimesQty(RatSub(avg0, RatInt(px)), quantity)
        pnl      == RatSub(gross, RatInt(commission))
        new_qty  == IF qty0 > 0 THEN qty0 - quantity ELSE qty0 + quantity
        total    == RatAdd(Get(realized, stock, Zero), pnl)
    IN  [positions |-> IF new_qty = 0
                       THEN Pop(positions, stock)
                       ELSE Put(positions, stock, [pos EXCEPT !.quantity = new_qty]),
         realized  |-> Put(realized, stock, total),
         pnl       |-> pnl]

\* exit_position, the same for an exit of `quantity` from the position in
\* `stock` at fill price px with the given commission (cents).
ExitUpdate(stock, quantity, px, commission) ==
    LET pos      == positions[stock]
        qty0     == pos.quantity
        avg0     == pos.avg_price
        gross    == IF qty0 > 0
                    THEN RatTimesQty(RatSub(RatInt(px), avg0), quantity)
                    ELSE RatTimesQty(RatSub(avg0, RatInt(px)), quantity)
        pnl      == RatSub(gross, RatInt(commission))
        new_qty  == IF qty0 > 0 THEN qty0 - quantity ELSE qty0 + quantity
        total    == RatAdd(Get(realized, stock, Zero), pnl)
    IN  [positions |-> IF new_qty = 0
                       THEN Pop(positions, stock)
                       ELSE Put(positions, stock,
                                [pos EXCEPT !.quantity = new_qty,
                                            !.realized_pnl = total]),
         realized  |-> Put(realized, stock, total),
         pnl       |-> pnl]

-----------------------------------------------------------------------------
(* Portfolio: the operations.                                              *)

\* What `last` records of a call: the method, its arguments, the quantity
\* after rounding, the bar it resolved to, and "ok" or the error raised.
Call(op, stock, quantity, rounded, index, error) ==
    [op |-> op, stock |-> stock, quantity |-> quantity, rounded |-> rounded,
     index |-> index, error |-> error]

\* A faulty _append_equity: the point is numbered from zero, by the length of
\* the curve before the append.
_append_equity_from_zero(log, value) ==
    Append(equity_curve, [i |-> Len(equity_curve), v |-> value])

\* Portfolio._append_equity(value), given the trade log after the fill.
_append_equity(log, value) == Append(equity_curve, [i |-> Len(log), v |-> value])

\* The trade_log entry of a buy.
LongEvent(stock, quantity, raw_price, px, cost, commission, pnl, trade_index) ==
    [type |-> "long", stock |-> stock, quantity |-> quantity, price |-> raw_price,
     fill_price |-> px, cost |-> cost, commission |-> commission,
     realized_pnl |-> pnl, index |-> trade_index]

\* The trade_log entry of a sell.
ShortEvent(stock, quantity, raw_price, px, proceeds, commission, pnl, trade_index) ==
    [type |-> "short", stock |-> stock, quantity |-> quantity, price |-> raw_price,
     fill_price |-> px, proceeds |-> proceeds, commission |-> commission,
     realized_pnl |-> pnl, index |-> trade_index]

\* A faulty ExitEvent: the logged amount leaves the commission out.
ExitEventGross(stock, quantity, raw_price, fill, amount, commission, pnl, trade_index) ==
    [type |-> "exit", stock |-> stock, quantity |-> quantity, price |-> raw_price,
     fill_price |-> fill,
     amount |-> amount + commission,
     commission |-> commission, realized_pnl |-> pnl, index |-> trade_index]

\* The trade_log entry of an exit.
ExitEvent(stock, quantity, raw_price, fill, amount, commission, pnl, trade_index) ==
    [type |-> "exit", stock |-> stock, quantity |-> quantity, price |-> raw_price,
     fill_price |-> fill, amount |-> amount, commission |-> commission,
     realized_pnl |-> pnl, index |-> trade_index]

\* A faulty enter_position_long: the cost is taken from cash before the
\* order is checked, and a rejected order keeps it.
enter_position_long_debits_first(stock, qty, index) ==
    /\ Len(trade_log) < MaxTrades
    /\ \E quantity \in _round_qty(qty) :
         LET trade_index == _trade_meta(stock, index)
             raw_price   == price(stock, trade_index)
             px          == _fill_price("buy", raw_price)
             notional    == (px * quantity) \div CENTI
             commission  == _compute_commission(quantity, notional)
             cost        == notional + commission
             error       == _check_order_common(stock, "buy", quantity, trade_index,
                                                cost, -cost)
             upd         == LongUpdate(stock, quantity, px)
         IN  /\ last' = Call("enter_position_long", stock, qty, quantity, trade_index, error)
             /\ cash' = cash - cost
             /\ IF error # "ok"
                THEN UNCHANGED <<positions, realized, trade_log, equity_curve>>
                ELSE /\ positions' = upd.positions
                     /\ realized' = upd.realized
                     /\ trade_log' = Append(trade_log,
                            LongEvent(stock, quantity, raw_price, px, cost,
                                      commission, upd.pnl, trade_index))
                     /\ equity_curve' = _append_equity(trade_log', get_value(trade_index)')
    /\ UNCHANGED <<settings, sizes, bt, services>>

\* Portfolio.enter_position_long(stock, quantity, index).
enter_position_long(stock, qty, index) ==
    /\ Len(trade_log) < MaxTrades
    /\ \E quantity \in _round_qty(qty) :
         LET trade_index == _trade_meta(stock, index)
             raw_price   == price(stock, trade_index)
             px          == _fill_price("buy", raw_price)
             notional    == (px * quantity) \div CENTI
             commission  == _compute_commission(quantity, notional)
             cost        == notional + commission
             error       == _check_order_common(stock, "buy", quantity, trade_index,
                                                cost, -cost)
             upd         == LongUpdate(stock, quantity, px)
         IN  /\ last' = Call("enter_position_long", stock, qty, quantity, trade_index, error)
             /\ IF error # "ok"
                THEN UNCHANGED portfolio
                ELSE /\ positions' = upd.positions
                     /\ realized' = upd.realized
                     /\ trade_log' = Append(trade_log,
                            LongEvent(stock, quantity, raw_price, px, cost,
                                      commission, upd.pnl, trade_index))
                     /\ cash' = cash - cost
                     /\ equity_curve' = _append_equity(trade_log', get_value(trade_index)')
    /\ UNCHANGED <<settings, sizes, bt, services>>

\* A faulty enter_position_short: allow_short is not consulted.
enter_position_short_unchecked(stock, qty, index) ==
    /\ Len(trade_log) < MaxTrades
    /\ \E quantity \in _round_qty(qty) :
         LET trade_index == _trade_meta(stock, index)
             raw_price   == price(stock, trade_index)
             px          == _fill_price("sell", raw_price)
             notional    == (px * quantity) \div CENTI
             commission  == _compute_commission(quantity, notional)
             proceeds    == notional - commission
             error       == _check_order_common(stock, "sell", quantity, trade_index,
                                                notional, proceeds)
             upd         == ShortUpdate(stock, quantity, px)
         IN  /\ last' = Call("enter_position_short", stock, qty, quantity, trade_index, error)
             /\ IF error # "ok"
                THEN UNCHANGED portfolio
                ELSE /\ positions' = upd.positions
                     /\ realized' = upd.realized
                     /\ trade_log' = Append(trade_log,
                            ShortEvent(stock, quantity, raw_price, px, proceeds,
                                       commission, upd.pnl, trade_index))
                     /\ cash' = cash + proceeds
                     /\ equity_curve' = _append_equity(trade_log', get_value(trade_index)')
    /\ UNCHANGED <<settings, sizes, bt, services>>

\* Portfolio.enter_position_short(stock, quantity, index).
enter_position_short(stock, qty, index) ==
    /\ Len(trade_log) < MaxTrades
    /\ \E quantity \in _round_qty(qty) :
         LET trade_index == _trade_meta(stock, index)
             raw_price   == price(stock, trade_index)
             px          == _fill_price("sell", raw_price)
             notional    == (px * quantity) \div CENTI
             commission  == _compute_commission(quantity, notional)
             proceeds    == notional - commission
             error       == IF ~settings.allow_short
                            THEN "Short selling is disabled"
                            ELSE _check_order_common(stock, "sell", quantity, trade_index,
                                                     notional, proceeds)
             upd         == ShortUpdate(stock, quantity, px)
         IN  /\ last' = Call("enter_position_short", stock, qty, quantity, trade_index, error)
             /\ IF error # "ok"
                THEN UNCHANGED portfolio
                ELSE /\ positions' = upd.positions
                     /\ realized' = upd.realized
                     /\ trade_log' = Append(trade_log,
                            ShortEvent(stock, quantity, raw_price, px, proceeds,
                                       commission, upd.pnl, trade_index))
                     /\ cash' = cash + proceeds
                     /\ equity_curve' = _append_equity(trade_log', get_value(trade_index)')
    /\ UNCHANGED <<settings, sizes, bt, services>>

\* Portfolio.exit_position(stock, quantity, index).
exit_position(stock, qty, index) ==
    /\ Len(trade_log) < MaxTrades
    /\ \E quantity \in _round_qty(qty) :
         LET trade_index == _trade_meta(stock, index)
             error       == IF quantity <= 0
                            THEN "Quantity must be positive"
                            ELSE IF stock \notin DOMAIN positions
                            THEN "Stock not found in portfolio"
                            ELSE IF quantity > Abs(positions[stock].quantity)
                            THEN "Quantity exceeds position size"
                            ELSE "ok"
             qty0        == positions[stock].quantity
             raw_price   == price(stock, trade_index)
             fill        == IF qty0 > 0 THEN _fill_price("sell", raw_price)
                                        ELSE _fill_price("buy", raw_price)
             notional    == (fill * quantity) \div CENTI
             commission  == _compute_commission(quantity, notional)
             amount      == IF qty0 > 0 THEN notional - commission
                                        ELSE -(notional + commission)
             upd         == ExitUpdate(stock, quantity, fill, commission)
         IN  /\ last' = Call("exit_position", stock, qty, quantity, trade_index, error)
             /\ IF error # "ok"
                THEN UNCHANGED portfolio
                ELSE /\ cash' = cash + amount
                     /\ positions' = upd.positions
                     /\ realized' = upd.realized
                     /\ trade_log' = Append(trade_log,
                            ExitEvent(stock, quantity, raw_price, fill, amount,
                                      commission, upd.pnl, trade_index))
                     /\ equity_curve' = _append_equity(trade_log', get_value(trade_index)')
    /\ UNCHANGED <<settings, sizes, bt, services>>

\* Portfolio.clear_history(initial_cash), called with the user's initial cash.
clear_history ==
    /\ positions' = EmptyDict
    /\ realized' = EmptyDict
    /\ cash' = settings.initial_cash
    /\ trade_log' = <<>>
    /\ equity_curve' = <<>>
    /\ last' = Call("clear_history", "", 0, 0, 0, "ok")
    /\ UNCHANGED <<settings, sizes, bt, services>>

-----------------------------------------------------------------------------
(* Settings and scenarios.                                                 *)

\* Portfolio.__init__'s attribute defaults with the default initial cash
\* ($1,000.00 here), in the model's units.
Defaults ==
    [initial_cash             |-> 100000,
     slippage                 |-> 0,
     share_min_pct            |-> 10,
     commission               |-> 0,
     commission_per_order     |-> 0,
     commission_per_share     |-> 0,
     allow_short              |-> TRUE,
     max_positions            |-> 0,
     max_position_pct         |-> 0,
     min_cash_reserve_pct     |-> 0,
     min_trade_value          |-> 0,
     max_trade_value          |-> 0,
     max_order_qty            |-> 0,
     short_margin_requirement |-> 150]

\* The settings the model starts from, each with the order sizes (hundredths
\* of a share) submitted under it.  Settings with costs trade whole shares, so
\* that every amount is a whole number of cents.
Scenarios ==
    { \* defaults: 50, 100 and 200 shares
      [settings |-> Defaults, sizes |-> {5000, 10000, 20000}],
      \* defaults with $3, fractional orders: 0.14, 0.15 and 0.16 shares
      [settings |-> [Defaults EXCEPT !.initial_cash = 300], sizes |-> {14, 15, 16}],
      \* 1% slippage, 1 cent per share, whole shares, $2,000
      [settings |-> [Defaults EXCEPT !.initial_cash = 200000, !.slippage = 1,
                                     !.commission_per_share = 1,
                                     !.share_min_pct = 100],
       sizes |-> {50, 250, 1000}],
      \* 1% of notional, whole shares
      [settings |-> [Defaults EXCEPT !.commission = 1, !.share_min_pct = 100],
       sizes |-> {-500, 250, 1000}],
      \* $20 per order (the percentage is then ignored), whole shares
      [settings |-> [Defaults EXCEPT !.commission_per_order = 2000, !.commission = 1,
                                     !.share_min_pct = 100],
       sizes |-> {100, 1000}],
      \* every constraint set
      [settings |-> [Defaults EXCEPT !.max_positions = 1, !.max_position_pct = 50,
                                     !.min_cash_reserve_pct = 10,
                                     !.min_trade_value = 5000,
                                     !.max_trade_value = 60000,
                                     !.max_order_qty = 60],
       sizes |-> {100, 2000, 5000, 10000}],
      \* no short selling, 20% cash reserve
      [settings |-> [Defaults EXCEPT !.allow_short = FALSE,
                                     !.min_cash_reserve_pct = 20],
       sizes |-> {1000, 5000}] }

-----------------------------------------------------------------------------
(* The Portfolio as a client drives it.                                    *)

\* No call of create_strategy_from_code in progress.
SbIdle ==
    [pc |-> "idle", worker |-> "none", executed |-> FALSE, elapsed |-> 0,
     code |-> "", stock |-> "", portfolio |-> "",
     future |-> [kind |-> "none"], pending |-> [kind |-> "none"],
     outcome |-> [kind |-> "none"]]

\* The absence of a date (None, also what "if t:" treats as false).
NoTime == 0

\* No request of /strategies/run in progress; the locals of the handler as
\* it initialises them.
OrchIdle ==
    [pc |-> "idle", req |-> [kind |-> "none"], strat |-> [kind |-> "none"],
     symbols |-> <<>>, cash_per_symbol |-> RatInt(0),
     train_end |-> NoTime, test_start |-> NoTime, k |-> 1,
     results |-> <<>>, combined_trade_log |-> <<>>, portfolio_equity_curves |-> <<>>,
     total_end_value |-> RatInt(0),
     train_metrics |-> [kind |-> "none"], test_metrics |-> [kind |-> "none"],
     status_code |-> 0, run_data |-> [kind |-> "none"],
     response |-> [kind |-> "none"], loaded |-> [kind |-> "none"]]

\* A database without rows for the user (db.init_db).
NoRows == [portfolios |-> [kind |-> "none"], runs |-> <<>>]

\* _rate_limit_store = {} at import, the clock at its origin.
LimiterIdle ==
    [now |-> 0, store |-> EmptyDict, calls |-> 0, key |-> "", at |-> 0, answer |-> 0,
     admitted |-> EmptyDict, rejected |-> 0]

\* config imported with no variable set and no credentials file
\* (development: DISABLE_AUTH is True), no request verified yet.
AuthIdle ==
    [environ |-> EmptyDict, DISABLE_AUTH |-> TRUE, pc |-> "imported",
     credentials |-> [kind |-> "none"], firebase |-> "", outcome |-> [kind |-> "none"]]

\* _stock_cache = {} at import, the clock at its origin, no call made.
CacheIdle ==
    [now |-> 0, store |-> EmptyDict, calls |-> 0, threads |-> EmptyDict,
     returned |-> [kind |-> "none"]]

BtIdle ==
    [pc |-> "idle", start_date |-> [kind |-> "none"], end_date |-> [kind |-> "none"],
     start_iloc |-> 0, end_iloc |-> 0, candle |-> 0, calls |-> <<>>]

\* Portfolio() followed by add_cash(initial_cash), with the settings applied.
Init ==
    /\ \E sc \in Scenarios : settings = sc.settings /\ sizes = sc.sizes
    /\ cash = settings.initial_cash
    /\ positions = EmptyDict
    /\ realized = EmptyDict
    /\ trade_log = <<>>
    /\ equity_curve = <<>>
    /\ last = Call("Portfolio", "", 0, 0, 0, "ok")
    /\ bt = BtIdle
    /\ sb = SbIdle
    /\ orch = OrchIdle
    /\ tables = NoRows
    /\ limiter = LimiterIdle
    /\ auth = AuthIdle
    /\ cache = CacheIdle

Next ==
    \/ \E stock \in Symbols, qty \in sizes, index \in Bars :
          enter_position_long(stock, qty, index)
    \/ \E stock \in Symbols, qty \in sizes, index \in Bars :
          enter_position_short(stock, qty, index)
    \/ \E stock \in Symbols, qty \in sizes, index \in Bars :
          exit_position(stock, qty, index)
    \/ clear_history

Spec == Init /\ [][Next]_vars

-----------------------------------------------------------------------------
(* Reconstitution from persistence.                                        *)

\* api.get_stock as restore_from_state uses it: a symbol with price data
\* resolves, any other raises (404), and the position is dropped.
Resolves(symbol) == symbol \in Symbols

\* A faulty Skipped: rows of quantity zero are kept.
SkippedButZero(p) == p.symbol = "" \/ ~Resolves(p.symbol)

\* The rows restore_from_state leaves out: no symbol, quantity zero, or a
\* symbol get_stock cannot resolve.
Skipped(p) == p.symbol = "" \/ p.quantity = 0 \/ ~Resolves(p.symbol)

\* The loop of Portfolio.restore_from_state over positions_data.
RECURSIVE RestorePositions(_, _)
RestorePositions(positions_data, acc) ==
    IF positions_data = <<>>
    THEN acc
    ELSE LET p == Head(positions_data)
         IN  RestorePositions(Tail(positions_data),
                IF Skipped(p)
                THEN acc
                ELSE Put(acc, p.symbol,
                         [quantity     |-> p.quantity,
                          avg_price    |-> p.avg_price,
                          realized_pnl |-> p.realized_pnl]))

\* Persisted states handed to restore_from_state: one with a short position
\* and a zero-quantity row; one with a nameless row, a row whose symbol has
\* no price data, a fractional long and one logged trade.
SavedStates ==
    { [cash |-> 105000,
       positions |-> << [symbol |-> "A", quantity |-> -500,
                         avg_price |-> RatInt(1000), realized_pnl |-> Zero],
                        [symbol |-> "B", quantity |-> 0,
                         avg_price |-> RatInt(10000), realized_pnl |-> RatInt(500)] >>,
       trade_log |-> <<>>, equity_curve |-> <<>>,
       realized |-> ("B" :> RatInt(500))],
      [cash |-> 97500,
       positions |-> << [symbol |-> "", quantity |-> 100,
                         avg_price |-> RatInt(1000), realized_pnl |-> Zero],
                        [symbol |-> "ZZZ", quantity |-> 100,
                         avg_price |-> RatInt(1000), realized_pnl |-> Zero],
                        [symbol |-> "A", quantity |-> 250,
                         avg_price |-> RatInt(1000), realized_pnl |-> Zero] >>,
       trade_log |-> << [type |-> "long", stock |-> "A", quantity |-> 250,
                         price |-> 10, fill_price |-> 1000, cost |-> 2500,
                         commission |-> 0, realized_pnl |-> Zero, index |-> 0] >>,
       equity_curve |-> << [i |-> 1, v |-> 100000] >>,
       realized |-> EmptyDict] }

\* Portfolio.restore_from_state(cash, positions_data, trade_log, equity_curve,
\* realized, get_stock).
restore_from_state(state) ==
    /\ cash' = state.cash
    /\ trade_log' = state.trade_log
    /\ equity_curve' = state.equity_curve
    /\ realized' = state.realized
    /\ positions' = RestorePositions(state.positions, EmptyDict)
    /\ last' = Call("restore_from_state", "", 0, 0, 0, "ok")
    /\ UNCHANGED <<settings, sizes, bt, services>>

NextRestore ==
    \/ Next
    \/ \E state \in SavedStates : restore_from_state(state)

SpecRestore == Init /\ [][NextRestore]_vars

-----------------------------------------------------------------------------
(* The backtest driver.                                                    *)

\* Last calendar day a start or end date is drawn from.
MaxDay == 7

\* The price frame of strategy.stock: one row per trading day, in date order
\* (days 4 and 7 have no row; days 0 and 1 precede the first row).
Frame ==
    << [date |-> 2, open |-> 10, high |-> 12, low |-> 9,  close |-> 11],
       [date |-> 3, open |-> 11, high |-> 13, low |-> 10, close |-> 12],
       [date |-> 5, open |-> 12, high |-> 12, low |-> 8,  close |-> 9],
       [date |-> 6, open |-> 9,  high |-> 10, low |-> 7,  close |-> 10] >>

None == [kind |-> "none"]
AtInt(v) == [kind |-> "int", v |-> v]
AtDate(v) == [kind |-> "date", v |-> v]

\* df.index.get_indexer([date], method="ffill")[0]: the position of the last
\* row dated on or before `date`, -1 when there is none.
get_indexer_ffill(date) ==
    Cardinality({k \in 1 .. Len(Frame) : Frame[k].date <= date}) - 1

\* Stock.to_iloc on the frame, for None, an integer or a date.
frame_to_iloc(index) ==
    IF index.kind = "none"
    THEN Len(Frame) - 1
    ELSE IF index.kind = "int"
         THEN Min(Max(0, index.v), Len(Frame) - 1)
         ELSE Max(0, Min(get_indexer_ffill(index.v), Len(Frame) - 1))

\* Stock.get_candle on the frame.
get_candle(index) ==
    LET row == Frame[frame_to_iloc(index) + 1]
    IN  <<row.open, row.high, row.low, row.close>>

\* A faulty CandleRange: range(start_iloc, end_iloc), the end bar left out.
CandleRangeHalfOpen(start_iloc, end_iloc) == start_iloc .. (end_iloc - 1)

\* range(start_iloc, end_iloc + 1)
CandleRange(start_iloc, end_iloc) == start_iloc .. end_iloc

\* Arguments Backtest.run is called with.
RunArgs ==
    {None} \cup {AtInt(v) : v \in -1 .. Len(Frame)} \cup {AtDate(d) : d \in 0 .. MaxDay}

\* Backtest.run up to the early return: both dates resolved, and nothing
\* more when start_iloc > end_iloc.
run(start_date, end_date) ==
    /\ bt.pc = "idle"
    /\ LET start_iloc == frame_to_iloc(start_date)
           end_iloc   == frame_to_iloc(end_date)
       IN  bt' = [pc         |-> IF start_iloc > end_iloc THEN "returned" ELSE "start",
                  start_date |-> start_date,
                  end_date   |-> end_date,
                  start_iloc |-> start_iloc,
                  end_iloc   |-> end_iloc,
                  candle     |-> start_iloc,
                  calls      |-> <<>>]
    /\ UNCHANGED <<settings, sizes, portfolio, last, services>>

\* self.strategy.start(get_candle(start_date)); the strategy's code may raise,
\* which ends the run.
strategy_start(raises) ==
    /\ bt.pc = "start"
    /\ bt' = [bt EXCEPT !.calls = Append(@, [fn |-> "start",
                                             args |-> get_candle(bt.start_date)]),
                        !.pc = IF raises THEN "raised" ELSE "loop"]
    /\ UNCHANGED <<settings, sizes, portfolio, last, services>>

\* One iteration of the for loop: strategy.update(open, high, low, close, candle).
strategy_update(raises) ==
    /\ bt.pc = "loop"
    /\ bt.candle \in CandleRange(bt.start_iloc, bt.end_iloc)
    /\ bt' = [bt EXCEPT !.calls = Append(@, [fn |-> "update",
                                             args |-> get_candle(AtInt(bt.candle))
                                                      \o <<bt.candle>>]),
                        !.candle = @ + 1,
                        !.pc = IF raises THEN "raised" ELSE "loop"]
    /\ UNCHANGED <<settings, sizes, portfolio, last, services>>

\* The loop is exhausted: self.strategy.end(get_candle(end_date)).
strategy_end(raises) ==
    /\ bt.pc = "loop"
    /\ bt.candle \notin CandleRange(bt.start_iloc, bt.end_iloc)
    /\ bt' = [bt EXCEPT !.calls = Append(@, [fn |-> "end",
                                             args |-> get_candle(bt.end_date)]),
                        !.pc = IF raises THEN "raised" ELSE "returned"]
    /\ UNCHANGED <<settings, sizes, portfolio, last, services>>

InitBacktest == Init /\ settings = Defaults

NextBacktest ==
    \/ \E start_date \in RunArgs, end_date \in RunArgs : run(start_date, end_date)
    \/ \E raises \in BOOLEAN : strategy_start(raises)
    \/ \E raises \in BOOLEAN : strategy_update(raises)
    \/ \E raises \in BOOLEAN : strategy_end(raises)

SpecBacktest == InitBacktest /\ [][NextBacktest]_vars

-----------------------------------------------------------------------------
(* The strategy sandbox (backend/backtest.py).                             *)
(*                                                                         *)
(* A source text is represented by what the sandbox looks at: whether it   *)
(* is blank, its length, whether ast.parse accepts it, the nodes of its    *)
(* tree in the order ast.walk yields them (breadth first: a parent before  *)
(* its children, siblings in source order; the Module node itself is left  *)
(* out), and what executing it does: the names it leaves bound in the      *)
(* namespace in insertion order, whether the module body or the            *)
(* constructor raises, and whether the module body ever finishes.          *)

_FORBIDDEN_NAMES ==
    {"__builtins__", "__import__", "eval", "exec", "compile", "open", "input",
     "help", "globals", "locals", "vars", "dir", "getattr", "setattr", "delattr",
     "memoryview", "breakpoint", "__loader__", "__spec__", "__subclasses__",
     "__mro__", "__class__", "__bases__", "isinstance", "issubclass", "hasattr",
     "repr", "format", "bytes", "bytearray", "slice", "property", "staticmethod",
     "classmethod", "type", "object", "__doc__", "__globals__", "__code__",
     "__closure__"}

\* Seconds the caller waits for the worker's result.
STRATEGY_EXEC_TIMEOUT == 30

_ALLOWED_DUNDER_ATTRS == {"__init__"}

STRATEGY_CODE_MAX_LEN == 50000

\* Seconds of a call after which the model's clock stops.
MaxElapsed == 32

\* str.startswith("__") on the attribute names the model's sources use.
StartsWithDunder(attr) == attr \in {"__class__", "__init__", "__dict__"}

ValueError(text, arg) == [kind |-> "raise", type |-> "ValueError", text |-> text, arg |-> arg]

NoError == [kind |-> "none"]

\* The checks of the loop body of _validate_strategy_code on one node, in
\* the order of the code.  node.name is the attr of an Attribute, the id of
\* a Name, and the id of the func of a Call whose func is a Name.
NodeError(node) ==
    IF node.type \in {"Import", "ImportFrom"}
    THEN ValueError("Imports are not allowed in strategy code", "")
    ELSE IF node.type \in {"Global", "Nonlocal"}
    THEN ValueError("global/nonlocal are not allowed in strategy code", "")
    ELSE IF /\ node.type = "Attribute"
            /\ StartsWithDunder(node.name)
            /\ node.name \notin _ALLOWED_DUNDER_ATTRS
    THEN ValueError("Access to dunder attributes is not allowed", "")
    ELSE IF node.type = "Name" /\ node.name \in _FORBIDDEN_NAMES
    THEN ValueError("Use of '%s' is not allowed in strategy code", node.name)
    ELSE IF node.type = "Call" /\ node.name \in _FORBIDDEN_NAMES
    THEN ValueError("Calls to '%s' are not allowed in strategy code", node.name)
    ELSE NoError

\* A walk that looks at the first node only.
WalkErrorFirstNodeOnly(walk) ==
    IF walk = <<>> THEN NoError ELSE NodeError(Head(walk))

\* for node in ast.walk(tree): the first node that raises decides.
RECURSIVE WalkError(_)
WalkError(walk) ==
    IF walk = <<>> THEN NoError
    ELSE IF NodeError(Head(walk)) # NoError THEN NodeError(Head(walk))
    ELSE WalkError(Tail(walk))

\* _validate_strategy_code(code): the exception it raises, NoError when it
\* returns the tree.
_validate_strategy_code(code) ==
    IF ~code.parses THEN ValueError("Syntax error: %s", "")
    ELSE WalkError(code.walk)

\* The namespace exec(...) starts from, and what the code binds after it.
\* A value is "Strategy" (the base type), "SubA" or "SubB" (types
\* inheriting from it), "Other" (a type that does not), or "value".
Namespace(code) == <<"Strategy", "value", "value">> \o code.bindings

\* The test without "obj is not Strategy".
IsStrategyType(obj) == obj \in {"Strategy", "SubA", "SubB"}

\* isinstance(obj, type) and issubclass(obj, Strategy) and obj is not Strategy
IsStrategySubclass(obj) == obj \in {"Strategy", "SubA", "SubB"} /\ obj # "Strategy"

\* for name, obj in namespace.items(): the first match, "" when none.
RECURSIVE FirstSubclass(_)
FirstSubclass(namespace) ==
    IF namespace = <<>> THEN ""
    ELSE IF IsStrategySubclass(Head(namespace)) THEN Head(namespace)
    ELSE FirstSubclass(Tail(namespace))

\* What _exec_strategy_code yields once exec(...) is over: the exception
\* of the module body, the instance obj(stock, portfolio) or the exception
\* of its constructor, or the ValueError for a namespace without a subclass.
ExecResult(code, stock, port) ==
    IF code.raises = "body"
    THEN [kind |-> "raise", type |-> "Exception", text |-> "module body", arg |-> ""]
    ELSE IF FirstSubclass(Namespace(code)) = ""
    THEN ValueError("Code must define a class that inherits from Strategy", "")
    ELSE IF code.raises = "constructor"
    THEN [kind |-> "raise", type |-> "Exception", text |-> "constructor", arg |-> ""]
    ELSE [kind |-> "instance", type |-> FirstSubclass(Namespace(code)),
          stock |-> stock, portfolio |-> port]

\* Nodes the model's sources are made of.
Nodes ==
    { [type |-> "Import", name |-> ""], [type |-> "ImportFrom", name |-> ""],
      [type |-> "Global", name |-> ""], [type |-> "Nonlocal", name |-> ""],
      [type |-> "Attribute", name |-> "__class__"],
      [type |-> "Attribute", name |-> "__init__"],
      [type |-> "Attribute", name |-> "close"],
      [type |-> "Name", name |-> "eval"], [type |-> "Name", name |-> "close"],
      [type |-> "Call", name |-> "open"], [type |-> "Call", name |-> "len"],
      [type |-> "ClassDef", name |-> ""] }

Walks == {<<>>} \cup {<<n>> : n \in Nodes} \cup {<<n, m>> : n \in Nodes, m \in Nodes}

Source(blank, length, parses, walk, bindings, raises, hangs) ==
    [blank |-> blank, length |-> length, parses |-> parses, walk |-> walk,
     bindings |-> bindings, raises |-> raises, hangs |-> hangs]

\* The sources submitted: blank ones, over-long ones, one with a syntax
\* error, every walk of up to two nodes, and sources that pass validation
\* and differ in what executing them does.
Sources ==
    { Source(TRUE, n, TRUE, <<>>, <<>>, "none", FALSE) : n \in {0, 3} }
    \cup { Source(FALSE, n, TRUE, w, <<"SubA">>, "none", FALSE) :
              n \in {STRATEGY_CODE_MAX_LEN + 1},
              w \in {<<>>, <<[type |-> "Import", name |-> ""]>>} }
    \cup { Source(FALSE, 7, FALSE, <<>>, <<>>, "none", FALSE) }
    \cup { Source(FALSE, STRATEGY_CODE_MAX_LEN, TRUE, w, <<"SubA">>, "none", FALSE) :
              w \in Walks }
    \cup { Source(FALSE, 40, TRUE, <<[type |-> "ClassDef", name |-> ""]>>, b, r, h) :
              b \in { <<>>, <<"value">>, <<"Other">>, <<"Strategy">>, <<"SubA">>,
                      <<"SubB", "SubA">>, <<"value", "SubB">> },
              r \in {"none", "body", "constructor"},
              h \in BOOLEAN }

sandbox_rest == <<settings, sizes, portfolio, last, bt, orch, tables, limiter, auth, cache>>

\* create_strategy_from_code(stock, portfolio, code), up to ex.submit(...).
create_strategy_from_code(stock, port, code) ==
    /\ sb.pc = "idle"
    /\ IF code.blank \/ code.length = 0
       THEN sb' = [SbIdle EXCEPT !.pc = "returned", !.code = code,
                     !.outcome = ValueError("Strategy code cannot be empty", "")]
       ELSE IF code.length > STRATEGY_CODE_MAX_LEN
       THEN sb' = [SbIdle EXCEPT !.pc = "returned", !.code = code,
                     !.outcome = ValueError("Strategy code exceeds maximum length (%s)",
                                            "")]
       ELSE sb' = [SbIdle EXCEPT !.pc = "waiting", !.worker = "submitted",
                     !.code = code, !.stock = stock, !.portfolio = port]
    /\ UNCHANGED sandbox_rest

\* The worker thread enters _exec_strategy_code: validation, and on success
\* the start of exec(compile(tree, ...), namespace).
_exec_strategy_code ==
    /\ sb.worker = "submitted"
    /\ IF _validate_strategy_code(sb.code) # NoError
       THEN sb' = [sb EXCEPT !.worker = "done",
                             !.future = _validate_strategy_code(sb.code)]
       ELSE sb' = [sb EXCEPT !.worker = "running", !.executed = TRUE]
    /\ UNCHANGED sandbox_rest

\* The worker thread leaves _exec_strategy_code: the module body is over,
\* the namespace is scanned and the class instantiated.  A module body
\* that never finishes never gets here.
_exec_strategy_code_return ==
    /\ sb.worker = "running"
    /\ ~sb.code.hangs
    /\ sb' = [sb EXCEPT !.worker = "done",
                        !.future = ExecResult(sb.code, sb.stock, sb.portfolio)]
    /\ UNCHANGED sandbox_rest

\* One second passes while the caller is blocked.  The caller is woken as
\* soon as what it waits for has happened, so no time passes then.
second ==
    /\ sb.elapsed < MaxElapsed
    /\ sb.worker = "running"
    /\ \/ sb.pc = "waiting" /\ sb.elapsed < STRATEGY_EXEC_TIMEOUT
       \/ sb.pc = "exiting"
    /\ sb' = [sb EXCEPT !.elapsed = @ + 1]
    /\ UNCHANGED sandbox_rest

\* future.result(timeout=STRATEGY_EXEC_TIMEOUT) and the except clause: the
\* worker's value or exception, or the ValueError of the timeout.  Either
\* way control leaves the body of the with statement.
future_result ==
    /\ sb.pc = "waiting"
    /\ sb.worker = "done" \/ sb.elapsed >= STRATEGY_EXEC_TIMEOUT
    /\ sb' = [sb EXCEPT !.pc = "exiting",
                        !.pending = IF sb.worker = "done" THEN sb.future
                                    ELSE ValueError("Strategy execution timed out after %ss",
                                                    "30")]
    /\ UNCHANGED sandbox_rest

\* ThreadPoolExecutor.__exit__: shutdown(wait=True) joins the worker thread,
\* then the value or exception of the with body reaches the caller.
executor_exit ==
    /\ sb.pc = "exiting"
    /\ sb.worker = "done"
    /\ sb' = [sb EXCEPT !.pc = "returned", !.outcome = sb.pending]
    /\ UNCHANGED sandbox_rest

NextSandbox ==
    \/ \E stock \in Symbols, code \in Sources :
          create_strategy_from_code(stock, "portfolio", code)
    \/ _exec_strategy_code
    \/ _exec_strategy_code_return
    \/ second
    \/ future_result
    \/ executor_exit

\* The sandbox at rest, beside a fresh portfolio under the default settings.
InitSandbox ==
    /\ settings = Defaults
    /\ sizes = {}
    /\ cash = settings.initial_cash
    /\ positions = EmptyDict
    /\ realized = EmptyDict
    /\ trade_log = <<>>
    /\ equity_curve = <<>>
    /\ last = Call("Portfolio", "", 0, 0, 0, "ok")
    /\ bt = BtIdle
    /\ sb = SbIdle
    /\ orch = OrchIdle
    /\ tables = NoRows
    /\ limiter = LimiterIdle
    /\ auth = AuthIdle
    /\ cache = CacheIdle

SpecSandbox == InitSandbox /\ [][NextSandbox]_vars

-----------------------------------------------------------------------------
(* The rate limiter (backend/api.py, backend/config.py).                   *)
(*                                                                         *)
(* limiter.store is _rate_limit_store (key -> list of admission times),    *)
(* limiter.now is time.time() in whole seconds.  The other fields record   *)
(* the calls made: their number, the key, the time and the status of the   *)
(* latest one, every admission time of each key since the start, and the   *)
(* number of calls rejected.                                               *)

RATE_LIMIT_STRATEGY_WINDOW_SEC == 60

RATE_LIMIT_STRATEGY_MAX == 5

RATE_LIMIT_GENERAL_WINDOW_SEC == 60

RATE_LIMIT_GENERAL_MAX == 100

\* Seconds between two readings of the clock that differ.
ClockStep == 30

\* The clock reading after which the model lets no more time pass.
MaxNow == 90

\* [t for t in times if now - t < window]
Recent(times, now, window) == SelectSeq(times, LAMBDA t : now - t < window)

\* A limiter that records a call before it decides on it.
_check_rate_limit_recording_first(store, now, key, window, max_calls) ==
    LET times == Append(Recent(Get(store, key, <<>>), now, window), now)
    IN  [store |-> Put(store, key, times), raised |-> Len(times) > max_calls]

\* _check_rate_limit(key, window, max_calls) called at time now: the store
\* it leaves and whether it raises HTTPException(429).
_check_rate_limit(store, now, key, window, max_calls) ==
    LET times == Recent(Get(store, key, <<>>), now, window)
    IN  IF Len(times) >= max_calls
        THEN [store |-> Put(store, key, times), raised |-> TRUE]
        ELSE [store |-> Put(store, key, Append(times, now)), raised |-> FALSE]

\* Calls of the limiter in one behaviour.
MaxCalls == 4

limiter_rest == <<settings, sizes, portfolio, last, bt, sb, orch, tables, auth, cache>>

\* The limiter after one call _check_rate_limit(key, window, max_calls):
\* 429 when it raises, else the request goes on (200).
Limited(key, window, max_calls) ==
    LET checked == _check_rate_limit(limiter.store, limiter.now, key, window, max_calls)
    IN  [limiter EXCEPT
            !.store = checked.store,
            !.calls = @ + 1,
            !.key = key,
            !.at = limiter.now,
            !.answer = IF checked.raised THEN 429 ELSE 200,
            !.admitted = IF checked.raised THEN @
                         ELSE Put(@, key, Append(Get(@, key, <<>>), limiter.now)),
            !.rejected = IF checked.raised THEN @ + 1 ELSE @]

\* rate_limit_middleware(request, call_next) for a request to an /api path
\* that is not skipped: the general limit on the key of the token or IP.
rate_limit_middleware(key) ==
    /\ limiter.calls < MaxCalls
    /\ limiter' = Limited(key, RATE_LIMIT_GENERAL_WINDOW_SEC, RATE_LIMIT_GENERAL_MAX)
    /\ UNCHANGED limiter_rest

\* The first statement of run_strategy_endpoint: the limit on strategy runs
\* of the user.  What the endpoint does once admitted is in SpecRun and
\* leaves the limiter alone.
strategy_rate_limit(key) ==
    /\ limiter.calls < MaxCalls
    /\ limiter' = Limited(key, RATE_LIMIT_STRATEGY_WINDOW_SEC, RATE_LIMIT_STRATEGY_MAX)
    /\ UNCHANGED limiter_rest

\* time.time() moves on between two calls.
time_passes ==
    /\ limiter.now + ClockStep <= MaxNow
    /\ limiter' = [limiter EXCEPT !.now = @ + ClockStep]
    /\ UNCHANGED limiter_rest

\* The keys of the model: one client of the API, two users running
\* strategies.
GeneralKeys == {"general:token"}

StrategyKeys == {"strategy:user", "strategy:other"}

\* The general key two short of its limit, as that many requests at the
\* origin of the clock leave it.
GeneralKeyBusy ==
    LET times == [i \in 1 .. (RATE_LIMIT_GENERAL_MAX - 2) |-> 0]
    IN  [LimiterIdle EXCEPT !.store = Put(EmptyDict, "general:token", times),
                            !.admitted = Put(EmptyDict, "general:token", times)]

\* A user's strategy key one short of its limit.
StrategyKeyBusy ==
    LET times == [i \in 1 .. (RATE_LIMIT_STRATEGY_MAX - 1) |-> 0]
    IN  [LimiterIdle EXCEPT !.store = Put(EmptyDict, "strategy:user", times),
                            !.admitted = Put(EmptyDict, "strategy:user", times)]

InitLimiter ==
    /\ settings = Defaults
    /\ sizes = {}
    /\ cash = settings.initial_cash
    /\ positions = EmptyDict
    /\ realized = EmptyDict
    /\ trade_log = <<>>
    /\ equity_curve = <<>>
    /\ last = Call("Portfolio", "", 0, 0, 0, "ok")
    /\ bt = BtIdle
    /\ sb = SbIdle
    /\ orch = OrchIdle
    /\ tables = NoRows
    /\ limiter \in {LimiterIdle, GeneralKeyBusy, StrategyKeyBusy}
    /\ auth = AuthIdle
    /\ cache = CacheIdle

NextLimiter ==
    \/ \E key \in GeneralKeys : rate_limit_middleware(key)
    \/ \E key \in StrategyKeys : strategy_rate_limit(key)
    \/ time_passes

SpecLimiter == InitLimiter /\ [][NextLimiter]_vars

-----------------------------------------------------------------------------
(* Persistence of the portfolio and of run records (backend/db.py).        *)
(*                                                                         *)
(* float(x) changes no value of the model, and json.dumps followed by      *)
(* json.loads returns an equal value for numbers, strings, None, lists and *)
(* dicts with string keys, which is all these columns hold.               *)

\* json.dumps and json.loads on the values the model stores (numbers,
\* strings, lists and dicts with string keys): the text is kept as the value
\* it denotes.  No column of the model is empty or NULL, so the defaults of
\* 'json.loads(row[...] or "[]")' are never taken.
dumps(value) == [json |-> value]

loads(text) == text.json

\* str(symbol).upper() on the symbols of the model.
Upper(symbol) == IF symbol = "a" THEN "A" ELSE symbol

\* port.positions(): the values of _positions, each with its Stock.
RECURSIVE PositionsList(_, _)
PositionsList(held, keys) ==
    IF keys = {} THEN <<>>
    ELSE LET k == CHOOSE x \in keys : TRUE
         IN  <<[stock |-> [symbol |-> k], quantity |-> held[k].quantity,
                avg_price |-> held[k].avg_price,
                realized_pnl |-> held[k].realized_pnl]>>
                \o PositionsList(held, keys \ {k})

\* A faulty loop: the quantity is stored without its sign.
RECURSIVE PositionsDataUnsigned(_)
PositionsDataUnsigned(listed) ==
    IF listed = <<>> THEN <<>>
    ELSE LET p == Head(listed)
         IN  (IF Upper(p.stock.symbol) = "" \/ p.quantity = 0 THEN <<>>
              ELSE <<[symbol |-> Upper(p.stock.symbol), quantity |-> Abs(p.quantity),
                      avg_price |-> p.avg_price, realized_pnl |-> p.realized_pnl]>>)
                \o PositionsDataUnsigned(Tail(listed))

\* The loop of save_portfolio_state over positions: rows without a symbol
\* or of quantity zero are left out.
RECURSIVE PositionsData(_)
PositionsData(listed) ==
    IF listed = <<>> THEN <<>>
    ELSE LET p == Head(listed)
         IN  (IF Upper(p.stock.symbol) = "" \/ p.quantity = 0 THEN <<>>
              ELSE <<[symbol |-> Upper(p.stock.symbol), quantity |-> p.quantity,
                      avg_price |-> p.avg_price, realized_pnl |-> p.realized_pnl]>>)
                \o PositionsData(Tail(listed))

\* db.save_portfolio_state(user_id, cash, positions, trade_log,
\* equity_curve, realized): the row of the user in portfolios.
save_portfolio_state(cash_, listed, log, curve, realized_) ==
    [cash |-> cash_,
     positions_json |-> dumps(PositionsData(listed)),
     trade_log_json |-> dumps(log),
     equity_curve_json |-> dumps(curve),
     realized_json |-> dumps(realized_)]

\* db.get_portfolio_state(user_id) for a user with a row.
get_portfolio_state(row) ==
    [cash |-> row.cash,
     positions |-> loads(row.positions_json),
     trade_log |-> loads(row.trade_log_json),
     equity_curve |-> loads(row.equity_curve_json),
     realized |-> loads(row.realized_json)]

\* save_portfolio(user_id, port, settings).
save_portfolio ==
    /\ tables' = [tables EXCEPT !.portfolios =
                     save_portfolio_state(cash, PositionsList(positions, DOMAIN positions),
                                          trade_log, equity_curve, realized)]
    /\ last' = Call("save_portfolio", "", 0, 0, 0, "ok")
    /\ UNCHANGED <<settings, sizes, portfolio, bt, sb, orch, limiter, auth, cache>>

\* state = db.get_portfolio_state(user_id); if state: a Portfolio restored
\* from it.
restore_saved ==
    /\ tables.portfolios # None
    /\ restore_from_state(get_portfolio_state(tables.portfolios))

\* The portfolio is traded, then saved, then loaded from what was saved.
NextPersist ==
    \/ \E stock \in Symbols, qty \in sizes, index \in Bars :
          tables.portfolios = None /\ enter_position_long(stock, qty, index)
    \/ \E stock \in Symbols, qty \in sizes, index \in Bars :
          tables.portfolios = None /\ enter_position_short(stock, qty, index)
    \/ \E stock \in Symbols, qty \in sizes, index \in Bars :
          tables.portfolios = None /\ exit_position(stock, qty, index)
    \/ tables.portfolios = None /\ clear_history
    \/ save_portfolio
    \/ restore_saved

\* A portfolio under the default settings whose client orders 1 or 2.5
\* shares at a time.
InitPersist ==
    /\ settings = Defaults
    /\ sizes = {100, 250}
    /\ cash = settings.initial_cash
    /\ positions = EmptyDict
    /\ realized = EmptyDict
    /\ trade_log = <<>>
    /\ equity_curve = <<>>
    /\ last = Call("Portfolio", "", 0, 0, 0, "ok")
    /\ bt = BtIdle
    /\ sb = SbIdle
    /\ orch = OrchIdle
    /\ tables = NoRows
    /\ limiter = LimiterIdle
    /\ auth = AuthIdle
    /\ cache = CacheIdle

SpecPersist == InitPersist /\ [][NextPersist]_vars

-----------------------------------------------------------------------------
(* The run orchestrator: run_strategy_endpoint (backend/api.py).            *)
(*                                                                         *)
(* Dates are day numbers.  Money is an exact rational of cents, because    *)
(* cash_per_symbol = initial_total / len(symbols) need not be whole.  What *)
(* a strategy does on a symbol over a window is given by a table of its    *)
(* fills (trade date, portfolio value after the fill relative to the cash  *)
(* the portfolio started with); the fills themselves are the Portfolio     *)
(* operations modelled above.                                              *)

\* The methods class Portfolio defines (backend/portfolio.py).
PortfolioMethods ==
    {"__init__", "_trade_meta", "_append_equity", "stocks", "get_position",
     "positions", "_round_qty", "_slippage_factor", "_fill_price",
     "_compute_commission", "estimate_fill_price", "estimate_buy_cost",
     "estimate_sell_proceeds", "max_affordable_buy", "_positions_view",
     "get_short_market_value", "get_reserved_cash", "get_buying_power",
     "_reserved_cash_projected", "_check_order_common", "enter_position_long",
     "enter_position_short", "exit_position", "get_value", "add_cash",
     "restore_from_state", "set_slippage", "set_share_min_pct", "set_commission",
     "set_commission_per_order", "set_commission_per_share", "set_allow_short",
     "set_short_margin_requirement", "set_constraints", "clear_history"}

\* The Portfolio methods the loop body calls on a portfolio it has just
\* built, in the order of the code (set_constraints is called by
\* _apply_portfolio_constraints).
SetupCalls ==
    <<"add_cash", "set_slippage", "set_slippage_bps", "set_commission",
      "set_commission_per_order", "set_commission_per_share", "set_allow_short",
      "set_short_margin_requirement", "set_constraints">>

\* port.<name>(...) for a name the class does not define raises this.
AttributeError(name) ==
    [kind |-> "raise", type |-> "AttributeError",
     text |-> "'Portfolio' object has no attribute '%s'", arg |-> name]

HTTPException(status_code) ==
    [kind |-> "raise", type |-> "HTTPException", text |-> "", arg |-> "",
     status_code |-> status_code]

\* Building and configuring a Portfolio: the exception of the first call
\* of a method the class does not have, NoError when every call exists.
RECURSIVE SetupError(_)
SetupError(calls) ==
    IF calls = <<>> THEN NoError
    ELSE IF Head(calls) \notin PortfolioMethods THEN AttributeError(Head(calls))
    ELSE SetupError(Tail(calls))

\* req.start_date and req.end_date of the model's requests.
StartDate == 1
EndDate == 11

\* db.get_strategy(user_id, strategy_id): the stored strategies.  1 trades,
\* 2 does not pass the sandbox, 3 raises in update().
Strategies ==
    [i \in {1, 2, 3} |->
        [name |-> i,
         code |-> IF i = 2
                  THEN Source(FALSE, 40, TRUE, <<[type |-> "Import", name |-> ""]>>,
                              <<"SubA">>, "none", FALSE)
                  ELSE Source(FALSE, 40, TRUE, <<[type |-> "ClassDef", name |-> ""]>>,
                              <<"SubA">>, "none", FALSE)]]

\* What create_strategy_from_code yields for a code that finishes in time.
CreateStrategy(code, stock, port) ==
    IF code.blank \/ code.length = 0
    THEN ValueError("Strategy code cannot be empty", "")
    ELSE IF code.length > STRATEGY_CODE_MAX_LEN
    THEN ValueError("Strategy code exceeds maximum length (%s)", "")
    ELSE IF _validate_strategy_code(code) # NoError THEN _validate_strategy_code(code)
    ELSE ExecResult(code, stock, port)

\* The fills of strategy 1 on a symbol in a window [from, to]: the trade
\* date and the change of the portfolio's value against its starting cash.
\* A buys on day 5 and exits on day 10, B trades on day 7.
AllFills ==
    [A |-> <<[time |-> 5, delta |-> 2000], [time |-> 10, delta |-> 1500]>>,
     B |-> <<[time |-> 7, delta |-> -1000]>>]

\* A replay starts from a fresh portfolio, so a window that begins after a
\* fill leaves it out and later changes count from the new start.
WindowFills(symbol, from, to) ==
    LET inside == SelectSeq(AllFills[symbol], LAMBDA f : from <= f.time /\ f.time <= to)
        base == IF inside = <<>> \/ Head(inside) = Head(AllFills[symbol]) THEN 0
                ELSE AllFills[symbol][1].delta
    IN  [j \in DOMAIN inside |-> [time |-> inside[j].time,
                                   delta |-> inside[j].delta - base]]

\* Backtest(strategy_obj, port).run(from, to) on a fresh portfolio funded
\* with `funds`: the exception of the strategy, or the trade log and the
\* equity curve the portfolio holds afterwards (one point per fill, i from
\* 1) and its value.
Replay(strategy_id, symbol, funds, from, to) ==
    IF strategy_id = 3
    THEN [kind |-> "raise", type |-> "Exception", text |-> "update", arg |-> ""]
    ELSE LET fills == WindowFills(symbol, from, to)
         IN  [kind |-> "portfolio",
              trade_log |-> [j \in DOMAIN fills |->
                                [stock |-> symbol, time |-> fills[j].time]],
              equity_curve |-> [j \in DOMAIN fills |->
                                   [i |-> j, v |-> RatAdd(funds, RatInt(fills[j].delta))]],
              value |-> IF fills = <<>> THEN funds
                        ELSE RatAdd(funds, RatInt(fills[Len(fills)].delta))]

\* compute_report(trade_log, equity_curve, initial_cash), reduced to the
\* first and last value of the curve and the numbers of points and trades.
compute_report(log, curve, initial_cash) ==
    [equity |-> [start_value |-> IF curve = <<>> THEN initial_cash ELSE curve[1].v,
                 end_value |-> IF curve = <<>> THEN initial_cash ELSE curve[Len(curve)].v,
                 points |-> IF curve = <<>> THEN 1 ELSE Len(curve)],
     trades |-> [trades |-> Len(log)]]

\* s.strip().upper() on the symbols the model's requests carry.
StripUpper(s) ==
    IF s = "a" THEN "A" ELSE IF s = " B " THEN "B" ELSE IF s = "  " THEN "" ELSE s

\* symbols = [s.strip().upper() for s in req.symbols if s and s.strip()]
RECURSIVE NormalizedSymbols(_)
NormalizedSymbols(raw) ==
    IF raw = <<>> THEN <<>>
    ELSE IF StripUpper(Head(raw)) = "" THEN NormalizedSymbols(Tail(raw))
    ELSE <<StripUpper(Head(raw))>> \o NormalizedSymbols(Tail(raw))

\* int(delta * train_pct), train_pct in percent.
SplitDate(start_date, end_date, train_pct) ==
    start_date + ((end_date - start_date) * train_pct) \div 100

\* The body of "for symbol in symbols: try: ..." for one symbol, as far as
\* the first statement that raises: the exception, or the entry and the
\* collections of a symbol that ran through; with them the train metrics
\* the pass computed, if it got there.  o is the request in hand.  The
\* strategies of the table end flat, so the liquidation at the end of the
\* window finds no position and adds no trade.
LoopBody(o, symbol) ==
    LET funds == o.cash_per_symbol
        forward == o.train_end # NoTime /\ o.test_start # NoTime
        first == Replay(o.strat.name, symbol, funds, StartDate,
                        IF forward THEN o.train_end ELSE EndDate)
        test == Replay(o.strat.name, symbol, funds, o.test_start, EndDate)
        port == IF forward THEN test ELSE first
        trained == IF forward
                   THEN compute_report(first.trade_log,
                            <<[i |-> 0, v |-> funds, time |-> StartDate]>>
                                \o first.equity_curve, funds)
                   ELSE None
        raises(exc, train_metrics) ==
            [kind |-> "raise", exc |-> exc, train_metrics |-> train_metrics]
    IN  IF SetupError(SetupCalls) # NoError THEN raises(SetupError(SetupCalls), None)
        ELSE IF symbol \notin Symbols THEN raises(HTTPException(404), None)
        ELSE IF CreateStrategy(o.strat.code, symbol, "portfolio").kind = "raise"
        THEN raises(CreateStrategy(o.strat.code, symbol, "portfolio"), None)
        ELSE IF first.kind = "raise" THEN raises(first, None)
        ELSE IF forward /\ test.kind = "raise" THEN raises(test, trained)
        ELSE [kind |-> "ran",
              entry |-> [strategy |-> o.strat.name, symbol |-> symbol,
                         start_value |-> funds, end_value |-> port.value,
                         pnl |-> RatSub(port.value, funds)],
              trade_log |-> port.trade_log,
              equity_curve |-> port.equity_curve,
              train_metrics |-> trained,
              test_metrics |->
                  IF forward
                  THEN compute_report(port.trade_log,
                           <<[i |-> 0, v |-> funds, time |-> o.test_start]>>
                               \o port.equity_curve, funds)
                  ELSE None]

\* _enrich_equity(ec, tl): point j (from 0) carries the time of trade j - 1.
_enrich_equity(ec, tl) ==
    [q \in DOMAIN ec |->
        [i |-> ec[q].i, v |-> ec[q].v,
         time |-> IF q > 1 /\ q - 1 <= Len(tl) THEN tl[q - 1].time ELSE NoTime]]

\* The single-portfolio branch: the enriched curve with the initial point
\* put in front and the first and last time filled in.
SingleCurve(ec, tl, initial, start_date, end_date) ==
    LET enriched == _enrich_equity(ec, tl)
        fronted == IF enriched # <<>> /\ enriched[1].i # 0
                   THEN <<[i |-> 0, v |-> initial, time |-> start_date]>> \o enriched
                   ELSE enriched
        started == IF fronted # <<>> /\ fronted[1].time = NoTime
                   THEN [fronted EXCEPT ![1].time = start_date]
                   ELSE fronted
    IN  IF started # <<>> /\ started[Len(started)].time = NoTime
        THEN [started EXCEPT ![Len(started)].time = end_date]
        ELSE started

\* The events (t, pidx, v) of portfolio pidx: point 0 is stamped with
\* start_date, point j > 0 with the time of trade j - 1; points without a
\* time are dropped.
RECURSIVE CurveEvents(_, _, _, _, _)
CurveEvents(ec, tl, pidx, start_date, q) ==
    IF q > Len(ec) THEN <<>>
    ELSE LET t == IF q = 1 THEN start_date
                  ELSE IF q - 1 <= Len(tl) THEN tl[q - 1].time ELSE NoTime
         IN  (IF t # NoTime THEN <<[t |-> t, pidx |-> pidx, v |-> ec[q].v]>> ELSE <<>>)
                \o CurveEvents(ec, tl, pidx, start_date, q + 1)

RECURSIVE AllEvents(_, _, _)
AllEvents(curves, start_date, p) ==
    IF p > Len(curves) THEN <<>>
    ELSE CurveEvents(curves[p].ec, curves[p].tl, p, start_date, 1)
            \o AllEvents(curves, start_date, p + 1)

\* events.sort(key=lambda x: (x[0], x[1])): a stable sort.
KeyLE(e, f) == e.t < f.t \/ (e.t = f.t /\ e.pidx <= f.pidx)

RECURSIVE InsertEvent(_, _)
InsertEvent(e, sorted) ==
    IF sorted = <<>> THEN <<e>>
    ELSE IF KeyLE(Head(sorted), e) THEN <<Head(sorted)>> \o InsertEvent(e, Tail(sorted))
    ELSE <<e>> \o sorted

RECURSIVE SortEvents(_)
SortEvents(events) ==
    IF events = <<>> THEN <<>>
    ELSE InsertEvent(events[Len(events)], SortEvents(SubSeq(events, 1, Len(events) - 1)))

RECURSIVE RatSum(_)
RatSum(values) ==
    IF values = <<>> THEN RatInt(0) ELSE RatAdd(Head(values), RatSum(Tail(values)))

\* for t, pidx, v in events: update current[pidx], and append the combined
\* value if no point of that time has been appended yet.
RECURSIVE MergeLoop(_, _, _, _)
MergeLoop(events, current, merged, seen_times) ==
    IF events = <<>> THEN merged
    ELSE LET e == Head(events)
             now == [current EXCEPT ![e.pidx] = e.v]
         IN  MergeLoop(Tail(events), now,
                 IF e.t \in seen_times THEN merged
                 ELSE Append(merged, [i |-> Len(merged), v |-> RatSum(now), time |-> e.t]),
                 seen_times \cup {e.t})

\* The multi-symbol branch.  curves is portfolio_equity_curves, a sequence
\* of [ec, tl].
MergedCurve(curves, initial, start_date) ==
    MergeLoop(SortEvents(AllEvents(curves, start_date, 1)),
              [p \in DOMAIN curves |->
                  IF curves[p].ec # <<>> THEN curves[p].ec[1].v ELSE RatInt(0)],
              <<[i |-> 0, v |-> initial, time |-> NoTime]>>,
              {})

\* equity_curve_enriched, by the number of portfolios that ran through.
EnrichedCurve(curves, initial, port_value, start_date, end_date) ==
    IF curves = <<>>
    THEN <<[i |-> 0, v |-> initial, time |-> NoTime],
           [i |-> 1, v |-> port_value, time |-> end_date]>>
    ELSE IF Len(curves) = 1
    THEN SingleCurve(curves[1].ec, curves[1].tl, initial, start_date, end_date)
    ELSE MergedCurve(curves, initial, start_date)

\* db.save_run(user_id, run_data): the row inserted into runs.  Columns
\* ending in _json hold json.dumps of the value; the keys of run_data that
\* have no column are not stored.
save_run(rows, run_data) ==
    Append(rows,
           [id |-> Len(rows) + 1,
            strategy_id |-> run_data.strategy_id,
            strategy_name |-> run_data.strategy,
            symbols_json |-> dumps(run_data.symbols),
            start_date |-> run_data.start_date,
            end_date |-> run_data.end_date,
            results_json |-> dumps(run_data.results),
            portfolio_json |-> dumps(run_data.portfolio),
            metrics_json |-> dumps(run_data.metrics),
            created_at |-> "CURRENT_TIMESTAMP"])

\* The requests the model sends.
Requests ==
    [strategy_id : {1, 2, 3, 9},
     symbols : {<<>>, <<"  ">>, <<"A">>, <<"ZZZ">>, <<"a", " B ">>, <<"A", "ZZZ">>,
                <<"ZZZ", "A">>, <<"  ", " B ">>, <<"ZZZ", "ZZZ">>, <<" B ", "A", "ZZZ">>},
     start_date : {StartDate},
     end_date : {EndDate},
     train_pct : {None, AtInt(0), AtInt(50), AtInt(100)}]

run_rest == <<settings, sizes, portfolio, last, bt, sb, auth, cache>>

\* run_strategy_endpoint(req), up to the loop over the symbols.
run_strategy_endpoint(req) ==
    /\ orch.pc = "idle"
    /\ LET checked == _check_rate_limit(limiter.store, limiter.now, "strategy:user",
                                        RATE_LIMIT_STRATEGY_WINDOW_SEC,
                                        RATE_LIMIT_STRATEGY_MAX)
           symbols == NormalizedSymbols(req.symbols)
           train_pct == req.train_pct
           forward == train_pct # None /\ 0 < train_pct.v /\ train_pct.v < 100
           split_date == IF forward
                         THEN SplitDate(req.start_date, req.end_date, train_pct.v)
                         ELSE NoTime
           raised(status_code) ==
               [OrchIdle EXCEPT !.pc = "raised", !.req = req, !.status_code = status_code]
       IN  /\ limiter' = [limiter EXCEPT !.store = checked.store]
           /\ orch' =
                IF checked.raised THEN raised(429)
                ELSE IF req.strategy_id \notin DOMAIN Strategies THEN raised(404)
                ELSE IF req.symbols = <<>> THEN raised(400)
                ELSE IF symbols = <<>> THEN raised(400)
                ELSE IF train_pct # None /\ (train_pct.v <= 0 \/ train_pct.v >= 100)
                THEN raised(400)
                ELSE [OrchIdle EXCEPT
                        !.pc = "loop", !.req = req,
                        !.strat = Strategies[req.strategy_id],
                        !.symbols = symbols,
                        !.cash_per_symbol = Rat(settings.initial_cash, Len(symbols)),
                        !.train_end = split_date,
                        !.test_start = split_date]
    /\ UNCHANGED <<run_rest, tables>>

\* A handler that lets every exception of the loop body through.
ReraisedAlways(exc) == TRUE

\* "except HTTPException: raise" comes before "except Exception as e:".
Reraised(exc) == exc.type = "HTTPException"

\* One pass of "for symbol in symbols:" with its except clauses.
run_symbol ==
    /\ orch.pc = "loop"
    /\ orch.k <= Len(orch.symbols)
    /\ LET symbol == orch.symbols[orch.k]
           out == LoopBody(orch, symbol)
           metrics(old, new) == IF old = None THEN new ELSE old
       IN  orch' =
             IF out.kind = "ran"
             THEN [orch EXCEPT
                     !.k = @ + 1,
                     !.total_end_value = RatAdd(@, out.entry.end_value),
                     !.results = Append(@, out.entry),
                     !.combined_trade_log = @ \o out.trade_log,
                     !.portfolio_equity_curves =
                         Append(@, [ec |-> out.equity_curve, tl |-> out.trade_log]),
                     !.train_metrics = metrics(@, out.train_metrics),
                     !.test_metrics = metrics(@, out.test_metrics)]
             ELSE IF Reraised(out.exc)
             THEN [orch EXCEPT !.pc = "raised",
                               !.status_code = IF out.exc.type = "HTTPException"
                                               THEN out.exc.status_code ELSE 500,
                               !.train_metrics = metrics(@, out.train_metrics)]
             ELSE [orch EXCEPT
                     !.k = @ + 1,
                     !.results = Append(@, [strategy |-> orch.strat.name,
                                            symbol |-> symbol,
                                            error |-> <<out.exc.text, out.exc.arg>>]),
                     !.train_metrics = metrics(@, out.train_metrics)]
    /\ UNCHANGED <<run_rest, tables, limiter>>

\* After the loop: the enriched equity curve, the metrics, run_data,
\* db.save_run and the response.
finish_run ==
    /\ orch.pc = "loop"
    /\ orch.k > Len(orch.symbols)
    /\ LET initial == RatInt(settings.initial_cash)
           port_value == orch.total_end_value
           equity_curve_enriched ==
               EnrichedCurve(orch.portfolio_equity_curves, initial, port_value,
                             orch.req.start_date, orch.req.end_date)
           run_data ==
               [strategy_id |-> orch.req.strategy_id,
                strategy |-> orch.strat.name,
                symbols |-> orch.symbols,
                start_date |-> orch.req.start_date,
                end_date |-> orch.req.end_date,
                train_pct |-> orch.req.train_pct,
                train_metrics |-> orch.train_metrics,
                test_metrics |-> orch.test_metrics,
                results |-> orch.results,
                portfolio |-> [initial_cash |-> initial,
                               value |-> port_value,
                               trade_log |-> orch.combined_trade_log,
                               equity_curve |-> equity_curve_enriched],
                metrics |-> compute_report(orch.combined_trade_log,
                                           equity_curve_enriched, initial)]
       IN  /\ tables' = [tables EXCEPT !.runs = save_run(@, run_data)]
           /\ orch' = [orch EXCEPT !.pc = "returned", !.status_code = 200,
                                   !.run_data = run_data,
                                   !.response = [ok |-> TRUE, results |-> orch.results,
                                                 run_id |-> Len(tables.runs) + 1]]
    /\ UNCHANGED <<run_rest, limiter>>

\* db.get_run(user_id, run_id): the record rebuilt from the row, None when
\* the user has no such run.
get_run(rows, run_id) ==
    IF run_id \notin DOMAIN rows THEN None
    ELSE LET row == rows[run_id]
         IN  [id |-> row.id,
              created_at |-> row.created_at,
              started_at |-> row.created_at,
              ended_at |-> row.created_at,
              strategy_id |-> row.strategy_id,
              strategy |-> row.strategy_name,
              symbols |-> loads(row.symbols_json),
              start_date |-> row.start_date,
              end_date |-> row.end_date,
              results |-> loads(row.results_json),
              portfolio |-> loads(row.portfolio_json),
              metrics |-> loads(row.metrics_json)]

\* The client reads back the run it has just stored.
load_run ==
    /\ orch.pc = "returned"
    /\ orch.loaded = None
    /\ orch' = [orch EXCEPT !.loaded = get_run(tables.runs, orch.response.run_id)]
    /\ UNCHANGED <<run_rest, tables, limiter>>

\* The user's strategy key of the limiter at its limit, as five runs within
\* the window leave it.
StrategyKeyFull ==
    [LimiterIdle EXCEPT !.store = Put(EmptyDict, "strategy:user", <<0, 0, 0, 0, 0>>)]

InitRun ==
    /\ settings = Defaults
    /\ sizes = {}
    /\ cash = settings.initial_cash
    /\ positions = EmptyDict
    /\ realized = EmptyDict
    /\ trade_log = <<>>
    /\ equity_curve = <<>>
    /\ last = Call("Portfolio", "", 0, 0, 0, "ok")
    /\ bt = BtIdle
    /\ sb = SbIdle
    /\ orch = OrchIdle
    /\ tables = NoRows
    /\ limiter \in {LimiterIdle, StrategyKeyFull}
    /\ auth = AuthIdle
    /\ cache = CacheIdle

NextRun ==
    \/ \E req \in Requests : run_strategy_endpoint(req)
    \/ run_symbol
    \/ finish_run
    \/ load_run

SpecRun == InitRun /\ [][NextRun]_vars

-----------------------------------------------------------------------------
(* The Portfolio under its constraint set (Portfolio.set_constraints).     *)

\* Settings that make each admission check bind, with the order sizes
\* (hundredths of a share) submitted under them.  No slippage and no
\* commission, $1,000 of cash.
AdmissionScenarios ==
    { \* every constraint set: 1, 20, 50 and 100 shares
      [settings |-> [Defaults EXCEPT !.max_positions = 1, !.max_position_pct = 50,
                                     !.min_cash_reserve_pct = 10,
                                     !.min_trade_value = 5000,
                                     !.max_trade_value = 60000,
                                     !.max_order_qty = 60],
       sizes |-> {100, 2000, 5000, 10000}],
      \* 30% of equity per trade, 80% of equity kept in cash
      [settings |-> [Defaults EXCEPT !.max_position_pct = 30,
                                     !.min_cash_reserve_pct = 80],
       sizes |-> {2000, 5000}],
      \* 100% of equity per trade
      [settings |-> [Defaults EXCEPT !.max_position_pct = 100],
       sizes |-> {10000, 20000}],
      \* one position at a time
      [settings |-> [Defaults EXCEPT !.max_positions = 1],
       sizes |-> {-100, 1000, 2000}],
      \* half of equity kept in cash
      [settings |-> [Defaults EXCEPT !.min_cash_reserve_pct = 50],
       sizes |-> {5000, 10000, 20000}] }

\* Portfolio(), add_cash(initial_cash) and set_constraints(...).
InitAdmission ==
    /\ \E sc \in AdmissionScenarios : settings = sc.settings /\ sizes = sc.sizes
    /\ cash = settings.initial_cash
    /\ positions = EmptyDict
    /\ realized = EmptyDict
    /\ trade_log = <<>>
    /\ equity_curve = <<>>
    /\ last = Call("Portfolio", "", 0, 0, 0, "ok")
    /\ bt = BtIdle
    /\ sb = SbIdle
    /\ orch = OrchIdle
    /\ tables = NoRows
    /\ limiter = LimiterIdle
    /\ auth = AuthIdle
    /\ cache = CacheIdle

SpecAdmission == InitAdmission /\ [][Next]_vars

-----------------------------------------------------------------------------
(* The end of a symbol's leg in run_strategy_endpoint: the liquidation of  *)
(* what the strategy left open (api.py, "auto_liquidate_end").             *)

\* int(x) on a quantity in hundredths of a share: the whole shares of x,
\* truncated toward zero.
int(x) == IF x >= 0 THEN CENTI * (x \div CENTI) ELSE -(CENTI * ((-x) \div CENTI))

\* Order sizes of a strategy that trades fractions: 0.5, 1 and 2.7 shares.
LiquidateSizes == {50, 100, 270}

\* "if settings.get('auto_liquidate_end', True): ..." with the setting at its
\* default, then the leg's end_value (last.index is end_iloc, the portfolio
\* is valued there).  The exit is Portfolio.exit_position's body, called with
\* abs(qty0).
auto_liquidate(stock, end_iloc) ==
    /\ last.op # "auto_liquidate"
    /\ LET pos  == IF stock \in DOMAIN positions THEN positions[stock].quantity ELSE 0
           qty0 == int(pos)
       IN  IF qty0 = 0
           THEN /\ last' = Call("auto_liquidate", stock, 0, 0, end_iloc, "ok")
                /\ UNCHANGED portfolio
           ELSE \E quantity \in _round_qty(Abs(qty0)) :
                  LET trade_index == _trade_meta(stock, end_iloc)
                      error       == IF quantity <= 0
                                     THEN "Quantity must be positive"
                                     ELSE IF quantity > Abs(pos)
                                     THEN "Quantity exceeds position size"
                                     ELSE "ok"
                      raw_price   == price(stock, trade_index)
                      fill        == IF pos > 0 THEN _fill_price("sell", raw_price)
                                                ELSE _fill_price("buy", raw_price)
                      notional    == (fill * quantity) \div CENTI
                      commission  == _compute_commission(quantity, notional)
                      amount      == IF pos > 0 THEN notional - commission
                                                ELSE -(notional + commission)
                      upd         == ExitUpdate(stock, quantity, fill, commission)
                  IN  /\ last' = Call("auto_liquidate", stock, Abs(qty0), quantity,
                                      end_iloc, error)
                      /\ IF error # "ok"
                         THEN UNCHANGED portfolio
                         ELSE /\ cash' = cash + amount
                              /\ positions' = upd.positions
                              /\ realized' = upd.realized
                              /\ trade_log' = Append(trade_log,
                                     ExitEvent(stock, quantity, raw_price, fill, amount,
                                               commission, upd.pnl, trade_index))
                              /\ equity_curve' =
                                     _append_equity(trade_log', get_value(trade_index)')
    /\ UNCHANGED <<settings, sizes, bt, services>>

\* The per-symbol Portfolio of the run: add_cash, the setters of api.py
\* (share_min_pct is never set there and keeps its default).
InitLiquidate ==
    /\ settings = Defaults
    /\ sizes = LiquidateSizes
    /\ cash = settings.initial_cash
    /\ positions = EmptyDict
    /\ realized = EmptyDict
    /\ trade_log = <<>>
    /\ equity_curve = <<>>
    /\ last = Call("Portfolio", "", 0, 0, 0, "ok")
    /\ bt = BtIdle
    /\ sb = SbIdle
    /\ orch = OrchIdle
    /\ tables = NoRows
    /\ limiter = LimiterIdle
    /\ auth = AuthIdle
    /\ cache = CacheIdle

\* The strategy's orders during bt.run, then the liquidation that ends the leg.
NextLiquidate ==
    \/ \E stock \in Symbols, qty \in sizes, index \in Bars :
          last.op # "auto_liquidate" /\ enter_position_long(stock, qty, index)
    \/ \E stock \in Symbols, qty \in sizes, index \in Bars :
          last.op # "auto_liquidate" /\ enter_position_short(stock, qty, index)
    \/ \E stock \in Symbols, qty \in sizes, index \in Bars :
          last.op # "auto_liquidate" /\ exit_position(stock, qty, index)
    \/ \E stock \in Symbols, end_iloc \in Bars : auto_liquidate(stock, end_iloc)

SpecLiquidate == InitLiquidate /\ [][NextLiquidate]_vars

-----------------------------------------------------------------------------
(* The legs of a run on the price frame: run_strategy_endpoint's            *)
(* walk-forward branch driving Backtest.run (api.py, backend/backtest.py). *)
(*                                                                         *)
(* orch.pc names the leg in progress ("train", "test", or "single" for a   *)
(* run without train_pct); bt is the Backtest of that leg, and             *)
(* bt.train_calls keeps what the strategy object of the train leg          *)
(* received.                                                               *)

\* train_pct of the requests: None (0), or a fraction in percent.
TrainPcts == {0, 25, 50, 75}

\* start_date and end_date of the requests: the days the frame spans.
WalkDates == Frame[1].date .. Frame[Len(Frame)].date

\* Backtest(strategy_obj, port).run(start_date, end_date) on date strings,
\* up to the early return; train_calls is carried along.
Leg(start_date, end_date, train_calls) ==
    LET start_iloc == frame_to_iloc(AtDate(start_date))
        end_iloc   == frame_to_iloc(AtDate(end_date))
    IN  [pc          |-> IF start_iloc > end_iloc THEN "returned" ELSE "start",
         start_date  |-> AtDate(start_date),
         end_date    |-> AtDate(end_date),
         start_iloc  |-> start_iloc,
         end_iloc    |-> end_iloc,
         candle      |-> start_iloc,
         calls       |-> <<>>,
         train_calls |-> train_calls]

\* The split computation and the first bt.run of the symbol: the train leg
\* when train_pct is given, the whole window otherwise.
first_leg(start_date, end_date, train_pct) ==
    /\ orch.pc = "idle"
    /\ LET forward    == train_pct # 0 /\ 0 < train_pct /\ train_pct < 100
           split_date == SplitDate(start_date, end_date, train_pct)
       IN  /\ orch' = [orch EXCEPT
                          !.pc = IF forward THEN "train" ELSE "single",
                          !.req = [start_date |-> start_date, end_date |-> end_date,
                                   train_pct |-> train_pct],
                          !.train_end = IF forward THEN split_date ELSE NoTime,
                          !.test_start = IF forward THEN split_date ELSE NoTime]
           /\ bt' = IF forward THEN Leg(start_date, split_date, <<>>)
                               ELSE Leg(start_date, end_date, <<>>)
    /\ UNCHANGED <<settings, sizes, portfolio, last, sb, tables, limiter, auth, cache>>

\* The train leg has returned: a fresh portfolio and strategy object, and
\* bt.run(test_start, req.end_date).
test_leg ==
    /\ orch.pc = "train"
    /\ bt.pc = "returned"
    /\ orch' = [orch EXCEPT !.pc = "test"]
    /\ bt' = Leg(orch.test_start, orch.req.end_date, bt.calls)
    /\ UNCHANGED <<settings, sizes, portfolio, last, sb, tables, limiter, auth, cache>>

InitWalk ==
    /\ settings = Defaults
    /\ sizes = {}
    /\ cash = settings.initial_cash
    /\ positions = EmptyDict
    /\ realized = EmptyDict
    /\ trade_log = <<>>
    /\ equity_curve = <<>>
    /\ last = Call("Portfolio", "", 0, 0, 0, "ok")
    /\ bt = BtIdle
    /\ sb = SbIdle
    /\ orch = OrchIdle
    /\ tables = NoRows
    /\ limiter = LimiterIdle
    /\ auth = AuthIdle
    /\ cache = CacheIdle

NextWalk ==
    \/ \E start_date \in WalkDates, end_date \in WalkDates, train_pct \in TrainPcts :
          start_date <= end_date /\ first_leg(start_date, end_date, train_pct)
    \/ test_leg
    \/ \E raises \in BOOLEAN : strategy_start(raises)
    \/ \E raises \in BOOLEAN : strategy_update(raises)
    \/ \E raises \in BOOLEAN : strategy_end(raises)

SpecWalk == InitWalk /\ [][NextWalk]_vars

-----------------------------------------------------------------------------
(* _check_rate_limit run by the worker threads of the server.              *)
(*                                                                         *)
(* run_strategy_endpoint is a plain "def", so each request runs on a       *)
(* thread of the pool and the threads share _rate_limit_store without a    *)
(* lock.  A thread may be suspended between any two statements, and        *)
(* between the evaluation of the list comprehension and the slice          *)
(* assignment that stores it.  Lists are objects: limiter.store maps a key *)
(* to a reference, limiter.heap maps a reference to the list's items, and  *)
(* limiter.threads holds each thread's position and locals.                *)

\* The threads of the pool that serve the user's requests.
Workers == {"w1", "w2"}

\* A thread outside _check_rate_limit.
ThreadIdle == [pc |-> "idle", now |-> 0, times |-> 0, filtered |-> <<>>]

\* The store holding `times` under the user's strategy key (no key when
\* times is None), with no call in progress.
RaceIdle(times) ==
    [now |-> 0,
     store |-> IF times = None THEN EmptyDict ELSE Put(EmptyDict, "strategy:user", 1),
     heap |-> IF times = None THEN <<>> ELSE <<times>>,
     threads |-> [w \in Workers |-> ThreadIdle],
     calls |-> 0,
     admitted |-> IF times = None THEN EmptyDict
                  ELSE Put(EmptyDict, "strategy:user", times),
     rejected |-> 0]

\* The thread's step, the rest of the limiter and of the state unchanged.
Step(w, thread) == [limiter EXCEPT !.threads[w] = thread]

\* A request arrives on thread w: now = time.time()
read_clock(w) ==
    /\ limiter.threads[w].pc = "idle"
    /\ limiter.calls < MaxCalls
    /\ limiter' = [Step(w, [ThreadIdle EXCEPT !.pc = "test", !.now = limiter.now])
                      EXCEPT !.calls = @ + 1]
    /\ UNCHANGED limiter_rest

\* if key not in _rate_limit_store:
test_key(w) ==
    /\ limiter.threads[w].pc = "test"
    /\ limiter' = Step(w, [limiter.threads[w] EXCEPT
                              !.pc = IF "strategy:user" \in DOMAIN limiter.store
                                     THEN "fetch" ELSE "create"])
    /\ UNCHANGED limiter_rest

\* _rate_limit_store[key] = []
create_list(w) ==
    /\ limiter.threads[w].pc = "create"
    /\ limiter' = [Step(w, [limiter.threads[w] EXCEPT !.pc = "fetch"]) EXCEPT
                      !.heap = Append(@, <<>>),
                      !.store = Put(@, "strategy:user", Len(limiter.heap) + 1)]
    /\ UNCHANGED limiter_rest

\* times = _rate_limit_store[key]
fetch_list(w) ==
    /\ limiter.threads[w].pc = "fetch"
    /\ limiter' = Step(w, [limiter.threads[w] EXCEPT
                              !.pc = "filter", !.times = limiter.store["strategy:user"]])
    /\ UNCHANGED limiter_rest

\* [t for t in times if now - t < window]
filter_list(w) ==
    /\ limiter.threads[w].pc = "filter"
    /\ LET thread == limiter.threads[w]
       IN  limiter' = Step(w, [thread EXCEPT
                                  !.pc = "assign",
                                  !.filtered = Recent(limiter.heap[thread.times], thread.now,
                                                      RATE_LIMIT_STRATEGY_WINDOW_SEC)])
    /\ UNCHANGED limiter_rest

\* times[:] = <the list just built>
assign_slice(w) ==
    /\ limiter.threads[w].pc = "assign"
    /\ LET thread == limiter.threads[w]
       IN  limiter' = [Step(w, [thread EXCEPT !.pc = "check", !.filtered = <<>>]) EXCEPT
                          !.heap[thread.times] = thread.filtered]
    /\ UNCHANGED limiter_rest

\* if len(times) >= max_calls: raise HTTPException(429)
check_len(w) ==
    /\ limiter.threads[w].pc = "check"
    /\ LET thread == limiter.threads[w]
       IN  limiter' =
             IF Len(limiter.heap[thread.times]) >= RATE_LIMIT_STRATEGY_MAX
             THEN [Step(w, ThreadIdle) EXCEPT !.rejected = @ + 1]
             ELSE Step(w, [thread EXCEPT !.pc = "append"])
    /\ UNCHANGED limiter_rest

\* times.append(now): the request is admitted.
append_now(w) ==
    /\ limiter.threads[w].pc = "append"
    /\ LET thread == limiter.threads[w]
       IN  limiter' = [Step(w, ThreadIdle) EXCEPT
                          !.heap[thread.times] = Append(@, thread.now),
                          !.admitted = Put(@, "strategy:user",
                                           Append(Get(@, "strategy:user", <<>>),
                                                  thread.now))]
    /\ UNCHANGED limiter_rest

InitRace ==
    /\ settings = Defaults
    /\ sizes = {}
    /\ cash = settings.initial_cash
    /\ positions = EmptyDict
    /\ realized = EmptyDict
    /\ trade_log = <<>>
    /\ equity_curve = <<>>
    /\ last = Call("Portfolio", "", 0, 0, 0, "ok")
    /\ bt = BtIdle
    /\ sb = SbIdle
    /\ orch = OrchIdle
    /\ tables = NoRows
    /\ limiter \in {RaceIdle(None),
                    RaceIdle([i \in 1 .. (RATE_LIMIT_STRATEGY_MAX - 1) |-> 0])}
    /\ auth = AuthIdle
    /\ cache = CacheIdle

NextRace ==
    \/ \E w \in Workers : read_clock(w)
    \/ \E w \in Workers : test_key(w)
    \/ \E w \in Workers : create_list(w)
    \/ \E w \in Workers : fetch_list(w)
    \/ \E w \in Workers : filter_list(w)
    \/ \E w \in Workers : assign_slice(w)
    \/ \E w \in Workers : check_len(w)
    \/ \E w \in Workers : append_now(w)
    \/ time_passes

SpecRace == InitRace /\ [][NextRace]_vars

-----------------------------------------------------------------------------
(* The general limit as the middleware keys it (api.rate_limit_middleware). *)
(*                                                                         *)
(* An Authorization header is a sequence of characters; limiter.by_header  *)
(* records, per header, the times at which its requests were let through,  *)
(* and limiter.header the header of the latest request.                    *)

\* The number of characters of the header that make the key: auth[:32].
KEY_HEADER_CHARS == 32

\* "Bearer "
BearerPrefix == <<"B", "e", "a", "r", "e", "r", " ">>

\* The first characters of an ID token: the encoded JOSE header, the same
\* for the tokens of one issuer and signing key.
JoseHeader == [i \in 1 .. 25 |-> "J"]

\* The Authorization headers of the model: two tokens of one issuer, which
\* differ after the JOSE header, a short opaque token, and no header.
Authorizations ==
    {BearerPrefix \o JoseHeader \o <<".", "a">>,
     BearerPrefix \o JoseHeader \o <<".", "b">>,
     BearerPrefix \o <<"c">>,
     <<>>}

\* request.client.host
Hosts == {"10.0.0.1", "10.0.0.2"}

\* request.url.path of the model's requests.
Paths == {"/api/v1/portfolio/", "/health"}

\* path.rstrip("/")
rstrip_slash(path) == IF path = "/api/v1/portfolio/" THEN "/api/v1/portfolio" ELSE path

_RATE_LIMIT_SKIP_PATHS == {"/health", "/docs", "/redoc", "/openapi.json"}

\* path.startswith("/api")
startswith_api(path) == path = "/api/v1/portfolio"

\* s[:n]
Prefix(s, n) == SubSeq(s, 1, IF Len(s) < n THEN Len(s) ELSE n)

\* key = f"general:{auth[:32]}" if auth else f"general:ip:{ip}"
GeneralKey(authorization, ip) ==
    IF authorization # <<>> THEN <<"general:">> \o Prefix(authorization, KEY_HEADER_CHARS)
    ELSE <<"general:ip:", ip>>

\* rate_limit_middleware(request, call_next): a skipped path goes straight
\* to call_next; any other request is checked against the bucket of its key.
api_request(path, authorization, ip) ==
    /\ limiter.calls < MaxCalls
    /\ LET key     == GeneralKey(authorization, ip)
           skipped == \/ rstrip_slash(path) \in _RATE_LIMIT_SKIP_PATHS
                      \/ ~startswith_api(rstrip_slash(path))
           checked == Limited(key, RATE_LIMIT_GENERAL_WINDOW_SEC, RATE_LIMIT_GENERAL_MAX)
       IN  limiter' =
             IF skipped
             THEN [limiter EXCEPT !.calls = @ + 1, !.header = authorization,
                                  !.answer = 200, !.at = limiter.now]
             ELSE [checked EXCEPT
                      !.header = authorization,
                      !.by_header = IF checked.answer = 200
                                    THEN Put(@, authorization,
                                             Append(Get(@, authorization, <<>>),
                                                    limiter.now))
                                    ELSE @]
    /\ UNCHANGED limiter_rest

\* No request yet, or the first header of the model two requests short of
\* the limit, as that many requests at the origin of the clock leave it.
BucketsIdle(busy) ==
    LET header == BearerPrefix \o JoseHeader \o <<".", "a">>
        times  == [i \in 1 .. (RATE_LIMIT_GENERAL_MAX - 2) |-> 0]
    IN  [now |-> 0, calls |-> 0, key |-> <<>>, at |-> 0, answer |-> 0, rejected |-> 0,
         header |-> <<>>,
         store |-> IF busy THEN Put(EmptyDict, GeneralKey(header, "10.0.0.1"), times)
                   ELSE EmptyDict,
         admitted |-> IF busy THEN Put(EmptyDict, GeneralKey(header, "10.0.0.1"), times)
                      ELSE EmptyDict,
         by_header |-> IF busy THEN Put(EmptyDict, header, times) ELSE EmptyDict]

InitBuckets ==
    /\ settings = Defaults
    /\ sizes = {}
    /\ cash = settings.initial_cash
    /\ positions = EmptyDict
    /\ realized = EmptyDict
    /\ trade_log = <<>>
    /\ equity_curve = <<>>
    /\ last = Call("Portfolio", "", 0, 0, 0, "ok")
    /\ bt = BtIdle
    /\ sb = SbIdle
    /\ orch = OrchIdle
    /\ tables = NoRows
    /\ limiter \in {BucketsIdle(FALSE), BucketsIdle(TRUE)}
    /\ auth = AuthIdle
    /\ cache = CacheIdle

NextBuckets ==
    \/ \E path \in Paths, authorization \in Authorizations, ip \in Hosts :
          api_request(path, authorization, ip)
    \/ time_passes

SpecBuckets == InitBuckets /\ [][NextBuckets]_vars

-----------------------------------------------------------------------------
(* The stock cache (api.get_stock).                                        *)
(*                                                                         *)
(* cache.store is _stock_cache in insertion order, one record per key:     *)
(* the symbol, "ts", and for the Stock object the time the data provider   *)
(* was read to build it.  A call runs on a worker thread, statement by     *)
(* statement; cache.threads holds each thread's position and locals,       *)
(* cache.returned how the latest call ended and cache.evicted the latest   *)
(* entry removed on overflow.                                              *)

STOCK_CACHE_MAX == 64

STOCK_CACHE_TTL_SEC == 3600

\* Seconds between two readings of the clock, the last reading, and the
\* number of get_stock calls in one behaviour.
CacheClockStep == 2400

MaxCacheNow == 7200

MaxStockCalls == 3

\* The symbols that fill the cache: "S1", "S2", ...
Filler(i) == "S" \o ToString(i)

\* The symbols requested: two with data, one without, and one of the
\* symbols already cached.
Requested == Symbols \cup {"ZZZ", Filler(1)}

\* Stock(symbol).df.empty
df_empty(symbol) == symbol = "ZZZ"

\* symbol in _stock_cache, and the position of its entry.
Cached(store, symbol) == \E i \in DOMAIN store : store[i].symbol = symbol

IndexOf(store, symbol) == CHOOSE i \in DOMAIN store : store[i].symbol = symbol

\* _stock_cache.pop(k, None) for every k in keys.
PopAll(store, keys) == SelectSeq(store, LAMBDA e : e.symbol \notin keys)

\* [k for k, v in _stock_cache.items() if now - float(v.get("ts", 0)) > TTL]
ExpiredKeys(store, now) ==
    {store[i].symbol : i \in {j \in DOMAIN store : now - store[j].ts > STOCK_CACHE_TTL_SEC}}

\* min(_stock_cache.items(), key=lambda kv: float(kv[1].get("ts", 0)))[0]:
\* the first of the entries with the smallest ts.
LruKey(store) ==
    store[CHOOSE i \in DOMAIN store :
            \A j \in DOMAIN store :
                store[i].ts < store[j].ts \/ (store[i].ts = store[j].ts /\ i <= j)].symbol

\* A thread outside get_stock.
CallIdle == [pc |-> "idle", symbol |-> "", now |-> 0, expired |-> {}, loaded |-> 0, lru |-> ""]

cache_rest == <<settings, sizes, portfolio, last, bt, sb, orch, tables, limiter, auth>>

\* The thread's step, the rest of the cache unchanged.
CacheStep(w, thread) == [cache EXCEPT !.threads[w] = thread]

\* The call of thread w ends: with the Stock it returns, or with the
\* exception it raises.
Ends(w, kind) ==
    LET thread == cache.threads[w]
    IN  [CacheStep(w, CallIdle) EXCEPT
            !.returned = [kind |-> kind, worker |-> w, symbol |-> thread.symbol,
                          at |-> thread.now,
                          loaded |-> IF kind = "stock"
                                     THEN cache.store[IndexOf(cache.store, thread.symbol)].loaded
                                     ELSE 0,
                          size |-> Len(cache.store)]]

\* get_stock(symbol) is called on thread w: now = time.time()
get_stock(w, symbol) ==
    /\ cache.threads[w].pc = "idle"
    /\ cache.calls < MaxStockCalls
    /\ cache' = [CacheStep(w, [CallIdle EXCEPT !.pc = "scan", !.symbol = symbol,
                                               !.now = cache.now])
                    EXCEPT !.calls = @ + 1]
    /\ UNCHANGED cache_rest

\* expired = [k for k, v in _stock_cache.items() if ...]
scan_expired(w) ==
    /\ cache.threads[w].pc = "scan"
    /\ cache' = CacheStep(w, [cache.threads[w] EXCEPT
                                 !.pc = "expire",
                                 !.expired = ExpiredKeys(cache.store, cache.threads[w].now)])
    /\ UNCHANGED cache_rest

\* for k in expired: _stock_cache.pop(k, None)
pop_expired(w) ==
    /\ cache.threads[w].pc = "expire"
    /\ cache' = [CacheStep(w, [cache.threads[w] EXCEPT !.pc = "test", !.expired = {}])
                    EXCEPT !.store = PopAll(@, cache.threads[w].expired)]
    /\ UNCHANGED cache_rest

\* if symbol not in _stock_cache:
test_cached(w) ==
    /\ cache.threads[w].pc = "test"
    /\ cache' = CacheStep(w, [cache.threads[w] EXCEPT
                                 !.pc = IF Cached(cache.store, cache.threads[w].symbol)
                                        THEN "touch" ELSE "load"])
    /\ UNCHANGED cache_rest

\* stock = Stock(symbol), which reads the data provider;
\* if stock.df.empty: raise HTTPException(404)
load_stock(w) ==
    /\ cache.threads[w].pc = "load"
    /\ cache' = IF df_empty(cache.threads[w].symbol)
                THEN Ends(w, "404")
                ELSE CacheStep(w, [cache.threads[w] EXCEPT !.pc = "insert",
                                                           !.loaded = cache.now])
    /\ UNCHANGED cache_rest

\* _stock_cache[symbol] = {"ts": now, "stock": stock}
insert_entry(w) ==
    /\ cache.threads[w].pc = "insert"
    /\ LET thread == cache.threads[w]
           entry  == [symbol |-> thread.symbol, ts |-> thread.now, loaded |-> thread.loaded]
       IN  cache' = [CacheStep(w, [thread EXCEPT !.pc = "overflow"]) EXCEPT
                        !.store = IF Cached(@, thread.symbol)
                                  THEN [@ EXCEPT ![IndexOf(@, thread.symbol)] = entry]
                                  ELSE Append(@, entry)]
    /\ UNCHANGED cache_rest

\* if len(_stock_cache) > STOCK_CACHE_MAX: lru = min(...)[0]
pick_lru(w) ==
    /\ cache.threads[w].pc = "overflow"
    /\ LET thread == cache.threads[w]
       IN  cache' =
             IF Len(cache.store) > STOCK_CACHE_MAX
             THEN CacheStep(w, [thread EXCEPT
                                   !.lru = LruKey(cache.store),
                                   !.pc = IF LruKey(cache.store) # thread.symbol
                                          THEN "evict" ELSE "touch"])
             ELSE CacheStep(w, [thread EXCEPT !.pc = "touch"])
    /\ UNCHANGED cache_rest

\* if lru != symbol: _stock_cache.pop(lru, None)
pop_lru(w) ==
    /\ cache.threads[w].pc = "evict"
    /\ LET thread == cache.threads[w]
           held   == Cached(cache.store, thread.lru)
       IN  cache' = [CacheStep(w, [thread EXCEPT !.pc = "touch", !.lru = ""]) EXCEPT
                        !.store = PopAll(@, {thread.lru}),
                        !.evicted =
                            IF held
                            THEN [kind |-> "entry", symbol |-> thread.lru,
                                  ts |-> cache.store[IndexOf(cache.store, thread.lru)].ts,
                                  oldest |-> cache.store[IndexOf(cache.store,
                                                 LruKey(cache.store))].ts]
                            ELSE @]
    /\ UNCHANGED cache_rest

\* _stock_cache[symbol]["ts"] = now
touch_entry(w) ==
    /\ cache.threads[w].pc = "touch"
    /\ LET thread == cache.threads[w]
       IN  cache' =
             IF ~Cached(cache.store, thread.symbol)
             THEN Ends(w, "KeyError")
             ELSE [CacheStep(w, [thread EXCEPT !.pc = "read"]) EXCEPT
                      !.store[IndexOf(cache.store, thread.symbol)].ts = thread.now]
    /\ UNCHANGED cache_rest

\* return _stock_cache[symbol]["stock"]
return_stock(w) ==
    /\ cache.threads[w].pc = "read"
    /\ cache' = IF ~Cached(cache.store, cache.threads[w].symbol)
                THEN Ends(w, "KeyError")
                ELSE Ends(w, "stock")
    /\ UNCHANGED cache_rest

\* time.time() moves on.
cache_time_passes ==
    /\ cache.now + CacheClockStep <= MaxCacheNow
    /\ cache' = [cache EXCEPT !.now = @ + CacheClockStep]
    /\ UNCHANGED cache_rest

\* The cache holding the first n filler symbols, all loaded and last used
\* at the origin of the clock, and the threads that serve get_stock.
CacheWith(n, workers) ==
    [CacheIdle EXCEPT
        !.store = [i \in 1 .. n |-> [symbol |-> Filler(i), ts |-> 0, loaded |-> 0]],
        !.threads = [w \in workers |-> CallIdle]] @@ [evicted |-> [kind |-> "none"]]

\* One request at a time.
InitCache ==
    /\ settings = Defaults
    /\ sizes = {}
    /\ cash = settings.initial_cash
    /\ positions = EmptyDict
    /\ realized = EmptyDict
    /\ trade_log = <<>>
    /\ equity_curve = <<>>
    /\ last = Call("Portfolio", "", 0, 0, 0, "ok")
    /\ bt = BtIdle
    /\ sb = SbIdle
    /\ orch = OrchIdle
    /\ tables = NoRows
    /\ limiter = LimiterIdle
    /\ auth = AuthIdle
    /\ cache \in {CacheWith(0, {"w1"}), CacheWith(STOCK_CACHE_MAX, {"w1"})}

NextCache ==
    \/ \E symbol \in Requested : get_stock("w1", symbol)
    \/ scan_expired("w1")
    \/ pop_expired("w1")
    \/ test_cached("w1")
    \/ load_stock("w1")
    \/ insert_entry("w1")
    \/ pick_lru("w1")
    \/ pop_lru("w1")
    \/ touch_entry("w1")
    \/ return_stock("w1")
    \/ cache_time_passes

SpecCache == InitCache /\ [][NextCache]_vars

\* The number of get_stock calls in one behaviour of the two threads.
MaxRaceStockCalls == 2

\* Requests served by two threads of the pool.
InitCacheRace ==
    /\ settings = Defaults
    /\ sizes = {}
    /\ cash = settings.initial_cash
    /\ positions = EmptyDict
    /\ realized = EmptyDict
    /\ trade_log = <<>>
    /\ equity_curve = <<>>
    /\ last = Call("Portfolio", "", 0, 0, 0, "ok")
    /\ bt = BtIdle
    /\ sb = SbIdle
    /\ orch = OrchIdle
    /\ tables = NoRows
    /\ limiter = LimiterIdle
    /\ auth = AuthIdle
    /\ cache \in {CacheWith(0, Workers), CacheWith(STOCK_CACHE_MAX, Workers)}

NextCacheRace ==
    \/ \E w \in Workers, symbol \in Requested :
          cache.calls < MaxRaceStockCalls /\ get_stock(w, symbol)
    \/ \E w \in Workers : scan_expired(w)
    \/ \E w \in Workers : pop_expired(w)
    \/ \E w \in Workers : test_cached(w)
    \/ \E w \in Workers : load_stock(w)
    \/ \E w \in Workers : insert_entry(w)
    \/ \E w \in Workers : pick_lru(w)
    \/ \E w \in Workers : pop_lru(w)
    \/ \E w \in Workers : touch_entry(w)
    \/ \E w \in Workers : return_stock(w)
    \/ cache_time_passes

SpecCacheRace == InitCacheRace /\ [][NextCacheRace]_vars

-----------------------------------------------------------------------------
(* Authentication (backend/config.py, backend/auth.py).                    *)
(*                                                                         *)
(* auth.environ is os.environ once the .env file is merged in;             *)
(* auth.DISABLE_AUTH is the module constant computed from it at import.    *)

\* str.lower() on the values of the model.
Lower(text) ==
    CASE text = "Production" -> "production"
      [] text = "TRUE" -> "true"
      [] text = "EXIT" -> "exit"
      [] OTHER -> text

\* The .env loop of config.py: a key of the file is set unless os.environ
\* has it already.
LoadDotEnv(environ, dotenv) ==
    [k \in DOMAIN environ \cup DOMAIN dotenv |->
        IF k \in DOMAIN environ THEN environ[k] ELSE dotenv[k]]

\* os.path.isabs, os.path.join(_env_dir, path.lstrip("./")) and
\* os.path.isfile on the paths of the model: two credential files exist.
isabs(path) == path \in {"/srv/creds.json", "/srv/missing.json"}

join_env_dir(path) ==
    CASE path = "creds.json" -> "/app/backend/creds.json"
      [] path = "./gone.json" -> "/app/backend/gone.json"
      [] OTHER -> path

isfile(path) == path \in {"/srv/creds.json", "/app/backend/creds.json"}

\* _has_firebase_creds, as a truth value.
_has_firebase_creds(environ) ==
    LET given == Get(environ, "GOOGLE_APPLICATION_CREDENTIALS", "")
        _creds_path == IF given # "" /\ ~isabs(given) THEN join_env_dir(given) ELSE given
    IN  _creds_path # "" /\ isfile(_creds_path)

IS_PRODUCTION(environ) == Lower(Get(environ, "ENVIRONMENT", "development")) = "production"

\* A configuration in which production is treated like any other
\* environment.
DISABLE_AUTH_any_environment(environ) ==
    LET flag == Lower(Get(environ, "DISABLE_AUTH", ""))
    IN  IF flag \in {"0", "false", "no"} THEN FALSE
        ELSE IF flag \in {"1", "true", "yes"} \/ ~_has_firebase_creds(environ) THEN TRUE
        ELSE FALSE

\* config.DISABLE_AUTH.
DISABLE_AUTH(environ) ==
    LET flag == Lower(Get(environ, "DISABLE_AUTH", ""))
        _explicit_disable == flag \in {"1", "true", "yes"}
        _explicit_enable == flag \in {"0", "false", "no"}
    IN  IF IS_PRODUCTION(environ) THEN FALSE
        ELSE IF _explicit_enable THEN FALSE
        ELSE IF _explicit_disable \/ ~_has_firebase_creds(environ) THEN TRUE
        ELSE FALSE

\* The process environments and .env files of the model.
Unset == "<unset>"

Opt(key, value) == IF value = Unset THEN EmptyDict ELSE (key :> value)

ProcessEnvirons ==
    { Opt("ENVIRONMENT", e) @@ Opt("DISABLE_AUTH", d)
         @@ Opt("GOOGLE_APPLICATION_CREDENTIALS", g) :
        e \in {Unset, "production", "Production", "development", "staging"},
        d \in {Unset, "1", "TRUE", "yes", "0", "false", "maybe"},
        g \in {Unset, "/srv/creds.json", "/srv/missing.json", "creds.json", "./gone.json"} }

DotEnvs ==
    { EmptyDict, Opt("ENVIRONMENT", "production"), Opt("ENVIRONMENT", "development"),
      Opt("DISABLE_AUTH", "1") }

Return(value) == [kind |-> "return", value |-> value]

\* Optional[HTTPAuthorizationCredentials] of HTTPBearer(auto_error=False).
Bearer(token) == [kind |-> "bearer", credentials |-> token]

\* token.strip() is empty.
Blank(token) == token \in {"", "  "}

\* firebase_admin.auth.verify_id_token on the tokens of the model: the
\* claims of a sound token, an exception otherwise.
verify_id_token(token) ==
    CASE token = "token-alice" -> Return([uid |-> "alice"])
      [] token = "token-no-uid" -> Return([uid |-> ""])
      [] OTHER -> [kind |-> "raise", type |-> "InvalidIdTokenError", text |-> "", arg |-> ""]

\* A bearer token that Firebase verifies and that names a user.
ValidToken(credentials) ==
    /\ credentials.kind = "bearer"
    /\ verify_id_token(credentials.credentials).kind = "return"
    /\ verify_id_token(credentials.credentials).value.uid # ""

\* What verify_token(credentials) returns or raises; `firebase` says
\* whether the Admin SDK imports and initialises.
VerifyResult(disabled, credentials, firebase) ==
    IF disabled THEN Return("dev-user")
    ELSE IF credentials.kind = "none" THEN HTTPException(401)
    ELSE IF Blank(credentials.credentials) THEN HTTPException(401)
    ELSE IF firebase = "not installed"
         THEN HTTPException(401)   \* the 503 raised inside the try is caught by 'except Exception'
    ELSE IF firebase = "init fails" THEN HTTPException(401)
    ELSE LET decoded == verify_id_token(credentials.credentials)
         IN  IF decoded.kind = "raise" THEN HTTPException(401)
             ELSE IF decoded.value.uid = "" THEN HTTPException(401)
             ELSE Return(decoded.value.uid)

Credentials ==
    {[kind |-> "none"]} \cup
    {Bearer(t) : t \in {"", "  ", "expired", "token-no-uid", "token-alice"}}

auth_rest == <<settings, sizes, portfolio, last, bt, sb, orch, tables, limiter, cache>>

\* verify_token(credentials), the dependency of every protected endpoint.
verify_token(credentials, firebase) ==
    /\ auth' = [auth EXCEPT !.pc = "answered", !.credentials = credentials,
                            !.firebase = firebase,
                            !.outcome = VerifyResult(auth.DISABLE_AUTH, credentials,
                                                     firebase)]
    /\ UNCHANGED auth_rest

\* config has been imported under one of the environments.
InitAuth ==
    /\ settings = Defaults
    /\ sizes = {}
    /\ cash = settings.initial_cash
    /\ positions = EmptyDict
    /\ realized = EmptyDict
    /\ trade_log = <<>>
    /\ equity_curve = <<>>
    /\ last = Call("Portfolio", "", 0, 0, 0, "ok")
    /\ bt = BtIdle
    /\ sb = SbIdle
    /\ orch = OrchIdle
    /\ tables = NoRows
    /\ limiter = LimiterIdle
    /\ cache = CacheIdle
    /\ \E environ \in ProcessEnvirons, dotenv \in DotEnvs :
          auth = [AuthIdle EXCEPT !.environ = LoadDotEnv(environ, dotenv),
                                  !.DISABLE_AUTH = DISABLE_AUTH(LoadDotEnv(environ, dotenv))]

NextAuth ==
    \E credentials \in Credentials, firebase \in {"ok", "not installed", "init fails"} :
        verify_token(credentials, firebase)

SpecAuth == InitAuth /\ [][NextAuth]_vars

-----------------------------------------------------------------------------
(* PUT /api/v1/settings (api.update_settings_endpoint).                    *)
(*                                                                         *)
(* tables.settings is the user's row of the settings table, as the dict    *)
(* that was saved; a request body is the dict of the fields it carries.    *)
(* Money is in cents and fractions are in percent, as in `settings`.       *)

\* db.DEFAULT_SETTINGS (without the watchlist), initial_cash scaled as in
\* Defaults.
DEFAULT_SETTINGS ==
    [initial_cash |-> 100000, slippage |-> 0, commission |-> 0, share_min_pct |-> 10,
     allow_short |-> TRUE, max_positions |-> 0, max_position_pct |-> 0,
     min_cash_reserve_pct |-> 0, min_trade_value |-> 0, max_trade_value |-> 0,
     max_order_qty |-> 0, short_margin_requirement |-> 150,
     auto_liquidate_end |-> TRUE, block_lookahead |-> TRUE]

\* {**a, **b}.
Merged(a, b) == [k \in DOMAIN a \cup DOMAIN b |-> IF k \in DOMAIN b THEN b[k] ELSE a[k]]

\* db.get_settings(user_id).
get_settings(row) == IF row = None THEN DEFAULT_SETTINGS ELSE Merged(DEFAULT_SETTINGS, row.value)

\* db.save_settings(user_id, settings): the row written.
save_settings(settings_) == [kind |-> "row", value |-> Merged(DEFAULT_SETTINGS, settings_)]

\* The fields of SettingsUpdate after initial_cash, in the order the handler
\* goes through them.
LaterFields ==
    <<"slippage", "slippage_bps", "commission", "commission_per_order",
      "commission_per_share", "allow_short", "max_positions", "max_position_pct",
      "min_cash_reserve_pct", "min_trade_value", "max_trade_value", "max_order_qty",
      "short_margin_requirement", "auto_liquidate_end">>

\* The test the handler makes of a field before it raises 400.
FieldValid(field, v) ==
    CASE field = "initial_cash" -> v >= 0
      [] field \in {"slippage", "commission"} -> v >= 0 /\ v < 100
      [] field = "slippage_bps" -> v >= 0 /\ v <= 10000
      [] field \in {"max_position_pct", "min_cash_reserve_pct"} -> v >= 0 /\ v <= 100
      [] field = "short_margin_requirement" -> v >= 100 /\ v <= 300
      [] field \in {"allow_short", "auto_liquidate_end"} -> TRUE
      [] OTHER -> v >= 0

\* The chain of "if upd.<field> is not None" blocks after initial_cash: the
\* 400 of the first field that fails its test, or the settings dict with
\* every field of the body written to it.
RECURSIVE ApplyFields(_, _, _)
ApplyFields(fields, upd, settings_) ==
    IF fields = <<>> THEN Return(settings_)
    ELSE LET field == Head(fields)
         IN  IF field \notin DOMAIN upd THEN ApplyFields(Tail(fields), upd, settings_)
             ELSE IF ~FieldValid(field, upd[field]) THEN HTTPException(400)
             ELSE ApplyFields(Tail(fields), upd,
                              Merged(settings_, field :> upd[field]))

\* The Portfolio methods get_portfolio calls on the portfolio it builds.
GetPortfolioCalls(state) ==
    <<IF state = None THEN "add_cash" ELSE "restore_from_state">> \o Tail(SetupCalls)

\* get_portfolio(user_id): the exception it raises, or the Portfolio of the
\* user's row (a new one with the initial cash when there is no row).
get_portfolio(row, settings_) ==
    IF SetupError(GetPortfolioCalls(row)) # NoError
    THEN SetupError(GetPortfolioCalls(row))
    ELSE Return(IF row = None
                THEN [cash |-> settings_.initial_cash, positions |-> EmptyDict,
                      trade_log |-> <<>>, equity_curve |-> <<>>, realized |-> EmptyDict]
                ELSE LET state == get_portfolio_state(row)
                     IN  [cash |-> state.cash,
                          positions |-> RestorePositions(state.positions, EmptyDict),
                          trade_log |-> state.trade_log,
                          equity_curve |-> state.equity_curve,
                          realized |-> state.realized])

\* port.get_value() of such a Portfolio: every position at its last close.
ValueOf(port) ==
    port.cash + SumOver([sym \in DOMAIN port.positions |->
                            price(sym, Size(sym) - 1) * port.positions[sym].quantity],
                        DOMAIN port.positions)

\* The request bodies of the model: any subset of five fields, each with a
\* value that passes its test and one that does not.
SettingsValues ==
    [initial_cash |-> {-100, 50000}, slippage |-> {1, 100}, max_positions |-> {-1, 2},
     min_trade_value |-> {5000}, max_trade_value |-> {1000, 6000}]

SettingsUpdates ==
    UNION { {upd \in [fields -> UNION {SettingsValues[f] : f \in fields}] :
                \A f \in fields : upd[f] \in SettingsValues[f]} :
            fields \in SUBSET DOMAIN SettingsValues }

\* What the client gets: the status and, with 200, the settings.
SettingsAnswer(upd, status_code, settings_) ==
    [orch EXCEPT !.req = [kind |-> "settings", upd |-> upd],
                 !.status_code = status_code,
                 !.response = IF status_code = 200 THEN Return(settings_) ELSE None]

\* update_settings_endpoint(upd, user_id).  An exception that is not an
\* HTTPException is answered 500.
update_settings_endpoint(upd) ==
    LET settings0 == get_settings(tables.settings)
        cash_given == "initial_cash" \in DOMAIN upd
        cash_valid == cash_given /\ FieldValid("initial_cash", upd["initial_cash"])
        settings1 == IF cash_valid
                     THEN Merged(settings0, "initial_cash" :> upd["initial_cash"])
                     ELSE settings0
        got == get_portfolio(tables.portfolios, settings1)
        port == got.value
        diff == upd["initial_cash"] - ValueOf(port)
        saved == save_portfolio_state(IF Abs(diff) > 1 THEN port.cash + diff ELSE port.cash,
                                      PositionsList(port.positions, DOMAIN port.positions),
                                      port.trade_log, port.equity_curve, port.realized)
        later == ApplyFields(LaterFields, upd, settings1)
        bounds_crossed == /\ later.value.max_trade_value # 0
                          /\ later.value.min_trade_value # 0
                          /\ later.value.max_trade_value < later.value.min_trade_value
    IN  /\ IF cash_given /\ ~cash_valid
           THEN /\ orch' = SettingsAnswer(upd, 400, settings0)
                /\ UNCHANGED tables
           ELSE IF cash_valid /\ got.kind = "raise"
           THEN /\ orch' = SettingsAnswer(upd, 500, settings0)
                /\ UNCHANGED tables
           ELSE LET portfolios1 == IF cash_valid THEN saved ELSE tables.portfolios
                IN  IF later.kind = "raise" \/ bounds_crossed
                    THEN /\ orch' = SettingsAnswer(upd, 400, settings0)
                         /\ tables' = [tables EXCEPT !.portfolios = portfolios1]
                    ELSE /\ orch' = SettingsAnswer(upd, 200, later.value)
                         /\ tables' = [tables EXCEPT !.portfolios = portfolios1,
                                                     !.settings = save_settings(later.value)]
        /\ UNCHANGED <<settings, sizes, portfolio, last, bt, sb, limiter, auth, cache>>

\* A user without a settings row, with or without a saved portfolio ($1,000
\* in cash, or $500 and a long position of one share of A).
InitSettings ==
    /\ settings = Defaults
    /\ sizes = {}
    /\ cash = settings.initial_cash
    /\ positions = EmptyDict
    /\ realized = EmptyDict
    /\ trade_log = <<>>
    /\ equity_curve = <<>>
    /\ last = Call("Portfolio", "", 0, 0, 0, "ok")
    /\ bt = BtIdle
    /\ sb = SbIdle
    /\ orch = OrchIdle
    /\ \E row \in {None,
                   save_portfolio_state(100000, <<>>, <<>>, <<>>, EmptyDict),
                   save_portfolio_state(50000,
                       <<[stock |-> [symbol |-> "A"], quantity |-> 100,
                          avg_price |-> RatInt(1000), realized_pnl |-> Zero]>>,
                       <<>>, <<>>, EmptyDict)} :
          tables = [settings |-> None] @@ [NoRows EXCEPT !.portfolios = row]
    /\ limiter = LimiterIdle
    /\ auth = AuthIdle
    /\ cache = CacheIdle

NextSettings == \E upd \in SettingsUpdates : update_settings_endpoint(upd)

SpecSettings == InitSettings /\ [][NextSettings]_vars

-----------------------------------------------------------------------------
(* The per-symbol table of a report (analytics.compute_symbol_breakdown).  *)
(*                                                                         *)
(* compute_report calls it on the trade log it is given; here the log is   *)
(* orch.combined_trade_log and the table is kept in orch.symbols_table.    *)

MaxEvents == 3

\* Python's < on the (upper-case) symbols of the model.
StrLess(a, b) ==
    LET rank == [sym \in {"", "A", "B"} |->
                    CASE sym = "" -> 0 [] sym = "A" -> 1 [] sym = "B" -> 2]
    IN  rank[a] < rank[b]

\* Python's < on the tuples (r["net_realized"], r["symbol"]).
KeyLess(a, b) ==
    \/ a.net_realized < b.net_realized
    \/ a.net_realized = b.net_realized /\ StrLess(a.symbol, b.symbol)

\* The events the logs of the model are made of: the fields of a trade
\* that compute_symbol_breakdown reads, realized_pnl in cents.
TradeEvents ==
    [type : {"long", "exit", "EXIT"}, stock : {"A", "B", "a", ""},
     realized_pnl : {-3000, 0, 10000}]

TradeLogs == UNION {[1..n -> TradeEvents] : n \in 0..MaxEvents}

\* The loop "for t in trades": `by` is the dict, as the sequence of its
\* values in insertion order.
RECURSIVE GroupBySymbol(_, _)
GroupBySymbol(trades, by) ==
    IF trades = <<>> THEN by
    ELSE LET t == Head(trades)
             sym == Upper(t.stock)
         IN  IF sym = "" THEN GroupBySymbol(Tail(trades), by)
             ELSE LET known == \E i \in DOMAIN by : by[i].symbol = sym
                      by1 == IF known THEN by
                             ELSE Append(by, [symbol |-> sym, trades |-> 0, exits |-> 0,
                                              net_realized |-> 0])
                      at == CHOOSE i \in DOMAIN by1 : by1[i].symbol = sym
                      is_exit == Lower(t.type) = "exit"
                      rec == [by1[at] EXCEPT
                                 !.trades = @ + 1,
                                 !.exits = IF is_exit THEN @ + 1 ELSE @,
                                 !.net_realized = IF is_exit THEN @ + t.realized_pnl ELSE @]
                  IN  GroupBySymbol(Tail(trades), [by1 EXCEPT ![at] = rec])

\* list.sort(key=lambda r: (r["net_realized"], r["symbol"])): ascending and
\* stable.
RECURSIVE InsertRecord(_, _)
InsertRecord(rec, sorted) ==
    IF sorted = <<>> THEN <<rec>>
    ELSE IF KeyLess(rec, Head(sorted)) THEN <<rec>> \o sorted
    ELSE <<Head(sorted)>> \o InsertRecord(rec, Tail(sorted))

RECURSIVE SortRecords(_)
SortRecords(out) ==
    IF out = <<>> THEN <<>>
    ELSE InsertRecord(out[Len(out)], SortRecords(SubSeq(out, 1, Len(out) - 1)))

\* list.reverse().
Reversed(out) == [i \in DOMAIN out |-> out[Len(out) + 1 - i]]

compute_symbol_breakdown(trades) ==
    Reversed(SortRecords(GroupBySymbol(trades, <<>>)))

\* The call at the end of compute_report.
symbol_breakdown ==
    /\ orch.symbols_table.kind = "none"
    /\ orch' = [orch EXCEPT
                   !.symbols_table = Return(compute_symbol_breakdown(orch.combined_trade_log))]
    /\ UNCHANGED <<settings, sizes, portfolio, last, bt, sb, tables, limiter, auth, cache>>

\* A report is about to be computed on one of the logs.
InitBreakdown ==
    /\ settings = Defaults
    /\ sizes = {}
    /\ cash = settings.initial_cash
    /\ positions = EmptyDict
    /\ realized = EmptyDict
    /\ trade_log = <<>>
    /\ equity_curve = <<>>
    /\ last = Call("Portfolio", "", 0, 0, 0, "ok")
    /\ bt = BtIdle
    /\ sb = SbIdle
    /\ \E log \in TradeLogs :
          orch = [symbols_table |-> [kind |-> "none"]]
                    @@ [OrchIdle EXCEPT !.combined_trade_log = log]
    /\ tables = NoRows
    /\ limiter = LimiterIdle
    /\ auth = AuthIdle
    /\ cache = CacheIdle

NextBreakdown == symbol_breakdown

SpecBreakdown == InitBreakdown /\ [][NextBreakdown]_vars

-----------------------------------------------------------------------------
(* Properties.                                                             *)

\* The cash change a trade_log entry records.
CashChange(event) ==
    IF event.type = "long" THEN -event.cost
    ELSE IF event.type = "short" THEN event.proceeds
    ELSE event.amount

RECURSIVE SumCashChanges(_)
SumCashChanges(log) ==
    IF log = <<>> THEN 0 ELSE CashChange(Head(log)) + SumCashChanges(Tail(log))

\* C1: on a portfolio funded once with its starting cash, after any sequence
\* of fills the cash equals the starting cash plus the cash changes the
\* trade log records (-cost of a long, +proceeds of a short, +amount of an exit).
C1_CashEqualsLoggedChanges ==
    cash = settings.initial_cash + SumCashChanges(trade_log)

\* Two fills, the second an exit that paid a commission.
C1_Witness ==
    /\ Len(trade_log) = 2
    /\ trade_log[2].type = "exit"
    /\ trade_log[2].commission > 0
    /\ cash # settings.initial_cash

\* C2: in every state reachable by buys, sells, exits, clear_history and
\* restore_from_state, no entry of the positions map has quantity 0: a fill
\* that brings a symbol's quantity to zero removes the entry.
C2_NoZeroQuantityEntry ==
    \A symbol \in DOMAIN positions : positions[symbol].quantity # 0

\* A buy that covered a short position exactly, in a portfolio that still
\* holds another position.
C2_Witness ==
    /\ last.op = "enter_position_long"
    /\ last.error = "ok"
    /\ Len(trade_log) >= 1
    /\ last.stock \notin DOMAIN positions
    /\ positions # EmptyDict

\* C3: whenever enter_position_long or enter_position_short succeeds at bar
\* t, the buying power at t right after the fill, cash minus the reserve
\* (short margin on the short positions plus the cash reserve on positive
\* equity), is not negative.
C3_BuyingPowerAfterEntry ==
    (last.op \in {"enter_position_long", "enter_position_short"} /\ last.error = "ok")
        => get_buying_power100(last.index) >= 0

\* An accepted short sale under a cash reserve, leaving both parts of the
\* reserve positive.
C3_Witness ==
    /\ last.op = "enter_position_short"
    /\ last.error = "ok"
    /\ settings.min_cash_reserve_pct > 0
    /\ get_short_market_value(last.index) > 0
    /\ get_value(last.index) > 0
    /\ get_buying_power100(last.index) < CENTI * cash

\* The calls that fill an order when they succeed.
Fills == {"enter_position_long", "enter_position_short", "exit_position"}

\* C4: since creation or the last clear_history the equity curve and the
\* trade log have the same length, the number of successful fills; the k-th
\* equity point has i = k, and the point a fill appends has
\* v = get_value(bar index) of the state after the fill's cash and position
\* update; a rejected order appends to neither list; clear_history empties both.
C4_OnePointPerFill ==
    /\ [](/\ Len(equity_curve) = Len(trade_log)
          /\ \A k \in 1 .. Len(equity_curve) : equity_curve[k].i = k)
    /\ [][/\ (last'.op \in Fills /\ last'.error = "ok") =>
                /\ trade_log = SubSeq(trade_log', 1, Len(trade_log))
                /\ Len(trade_log') = Len(trade_log) + 1
                /\ equity_curve' =
                     Append(equity_curve, [i |-> Len(trade_log) + 1,
                                           v |-> (get_value(last.index))'])
          /\ (last'.op \in Fills /\ last'.error # "ok") =>
                UNCHANGED <<trade_log, equity_curve>>
          /\ last'.op = "clear_history" =>
                (trade_log' = <<>> /\ equity_curve' = <<>>)]_vars

\* Two fills that changed the portfolio's value, the second at a later bar.
C4_Witness ==
    /\ Len(trade_log) = 2
    /\ Len(equity_curve) = 2
    /\ equity_curve[2].v # equity_curve[1].v
    /\ trade_log[2].index > trade_log[1].index
    /\ positions # EmptyDict

\* The commission the settings prescribe for q hundredths of a share filled
\* at `fill` cents a share, in hundredths of a cent: flat when a per-order or
\* per-share commission is set, else the percentage of the notional.
Commission100(q, fill) ==
    IF settings.commission_per_order > 0 \/ settings.commission_per_share > 0
    THEN CENTI * settings.commission_per_order + settings.commission_per_share * q
    ELSE IF settings.commission = 0
         THEN 0
         ELSE (settings.commission * fill * q) \div CENTI

\* C5: a successful enter_position_long of quantity q at raw close p lowers
\* cash by exactly fill * q + commission with fill = p * (1 + slippage), and
\* a successful enter_position_short raises it by exactly
\* fill * q - commission with fill = p * (1 - slippage); the commission is
\* commission_per_order + commission_per_share * q when either is set and
\* commission * fill * q otherwise.  (Both sides in hundredths of a cent.)
C5_CashChangeOfEntry ==
    [][LET q == last'.rounded
           p == Close[last'.stock][last'.index + 1]
       IN  /\ (last'.op = "enter_position_long" /\ last'.error = "ok") =>
                 LET fill == p * (CENTI + settings.slippage)
                 IN  CENTI * (cash - cash') = fill * q + Commission100(q, fill)
           /\ (last'.op = "enter_position_short" /\ last'.error = "ok") =>
                 LET fill == p * (CENTI - settings.slippage)
                 IN  CENTI * (cash' - cash) = fill * q - Commission100(q, fill)]_vars

\* The worked example: slippage 1%, one cent a share, buy 10 at raw 100;
\* fill 101, commission 0.10, cash down by 1010.10.
C5_Witness ==
    /\ settings.slippage = 1
    /\ settings.commission_per_share = 1
    /\ settings.commission_per_order = 0
    /\ last.op = "enter_position_long"
    /\ last.error = "ok"
    /\ last.rounded = 10 * CENTI
    /\ Len(trade_log) = 1
    /\ trade_log[1].price = 100
    /\ trade_log[1].fill_price = 101 * CENTI
    /\ trade_log[1].commission = 10
    /\ cash = settings.initial_cash - 101010

\* The nearest multiple of inc to q, a tie going away from zero.
RoundHalfAway(q, inc) ==
    LET k == (2 * Abs(q) + inc) \div (2 * inc)
    IN  IF q >= 0 THEN k ELSE -k

\* C6: before admission an order quantity is rounded to the nearest multiple
\* of share_min_pct/100 shares, a tie going away from zero, and an order
\* whose rounded quantity is not positive is rejected with
\* 'Quantity must be positive'.
C6_RoundsHalfAwayFromZero ==
    LET pct == IF settings.share_min_pct = 0 THEN CENTI ELSE settings.share_min_pct
    IN  last.op \in Fills =>
            /\ last.rounded = pct * RoundHalfAway(last.quantity, pct)
            /\ last.rounded <= 0 => last.error = "Quantity must be positive"

\* C7: exit_position succeeds whenever the symbol has a position and the
\* rounded quantity q satisfies 0 < q <= |q0|, whatever the order limits,
\* the cash reserve, the cash and the margin; it leaves a position of
\* magnitude |q0| - q on the same side, none when q = |q0|.  Otherwise it
\* raises and changes nothing.
C7_ExitAlwaysAllowed ==
    [][last'.op = "exit_position" =>
         LET q      == last'.rounded
             symbol == last'.stock
         IN  IF symbol \in DOMAIN positions /\ 0 < q
                /\ q <= Abs(positions[symbol].quantity)
             THEN LET q0 == positions[symbol].quantity
                  IN  /\ last'.error = "ok"
                      /\ IF q = Abs(q0)
                         THEN symbol \notin DOMAIN positions'
                         ELSE /\ symbol \in DOMAIN positions'
                              /\ positions'[symbol].quantity =
                                   IF q0 > 0 THEN q0 - q ELSE q0 + q
                      /\ \A other \in DOMAIN positions \ {symbol} :
                            /\ other \in DOMAIN positions'
                            /\ positions'[other].quantity = positions[other].quantity
             ELSE /\ last'.error # "ok"
                  /\ UNCHANGED portfolio]_vars

\* A partial exit from a short position that an entry of the same size would
\* not have passed: its value is below min_trade_value.
C7_Witness ==
    /\ last.op = "exit_position"
    /\ last.error = "ok"
    /\ Len(trade_log) = 2
    /\ settings.min_trade_value > 0
    /\ -trade_log[2].amount < settings.min_trade_value
    /\ last.stock \in DOMAIN positions
    /\ positions[last.stock].quantity < 0

\* The sign of a rational: -1, 0 or 1.
Sign(x) == IF x.n > 0 THEN 1 ELSE IF x.n < 0 THEN -1 ELSE 0

\* Of an exit step: the sign of the price move times the side, +1 when the
\* fill is on the profitable side of the basis of the position exited.
MoveTimesSide ==
    LET pos  == positions[last'.stock]
        e    == trade_log'[Len(trade_log')]
        move == Sign(RatSub(RatInt(e.fill_price), pos.avg_price))
    IN  IF pos.quantity > 0 THEN move ELSE -move

\* C8 as stated: for every exit event the sign of realized_pnl matches price
\* move times side, positive when a long exits above its basis or a short
\* below it, negative the other way round.
C8_PnlSignMatchesMove ==
    [][(last'.op = "exit_position" /\ last'.error = "ok") =>
          LET pnl == Sign(trade_log'[Len(trade_log')].realized_pnl)
          IN  /\ MoveTimesSide > 0 => pnl > 0
              /\ MoveTimesSide < 0 => pnl < 0]_vars

\* C8, amended: for every exit event the sign of realized_pnl + commission,
\* the pnl before the exit's commission, matches price move times side;
\* realized_pnl itself is negative after an adverse move and can be positive
\* only after a favourable one.
C8_GrossPnlSignMatchesMove ==
    [][(last'.op = "exit_position" /\ last'.error = "ok") =>
          LET e     == trade_log'[Len(trade_log')]
              pnl   == Sign(e.realized_pnl)
              gross == Sign(RatAdd(e.realized_pnl, RatInt(e.commission)))
          IN  /\ gross = MoveTimesSide
              /\ MoveTimesSide < 0 => pnl < 0
              /\ pnl > 0 => MoveTimesSide > 0]_vars

\* A short position covered below its basis, with a commission smaller than
\* the gain: realized_pnl is positive.
C8_Witness ==
    /\ last.op = "exit_position"
    /\ last.error = "ok"
    /\ Len(trade_log) = 2
    /\ trade_log[1].type = "short"
    /\ trade_log[2].fill_price < trade_log[1].fill_price
    /\ trade_log[2].commission > 0
    /\ trade_log[2].realized_pnl.n > 0

\* The state of the example: cash 1000, short selling allowed at a margin
\* requirement of 1.5, no slippage, commission or reserve, and one fill, a
\* short of 50 shares of A at bar 0, where A closes at 10.
AfterShort50 ==
    /\ settings.initial_cash = 1000 * CENTI
    /\ settings.allow_short
    /\ settings.short_margin_requirement = 150
    /\ settings.slippage = 0
    /\ settings.commission = 0
    /\ settings.commission_per_order = 0
    /\ settings.commission_per_share = 0
    /\ settings.min_cash_reserve_pct = 0
    /\ Len(trade_log) = 1
    /\ trade_log[1].type = "short"
    /\ trade_log[1].stock = "A"
    /\ trade_log[1].index = 0
    /\ trade_log[1].price = 10
    /\ trade_log[1].quantity = 50 * CENTI

\* C9: in that state cash is 1500, the short market value 500, the reserved
\* cash 750 and the buying power 750; a further short of 100 is admitted,
\* and a short of 200 is rejected for insufficient buying power and leaves
\* the state unchanged.
C9_ShortMarginExample ==
    /\ [](AfterShort50 =>
            /\ cash = 1500 * CENTI
            /\ get_short_market_value(0) = 500 * CENTI
            /\ get_reserved_cash100(0) = 750 * CENTI * CENTI
            /\ get_buying_power100(0) = 750 * CENTI * CENTI)
    /\ [][(/\ AfterShort50
           /\ last'.op = "enter_position_short"
           /\ last'.stock = "A"
           /\ last'.index = 0) =>
              /\ last'.rounded = 100 * CENTI =>
                    /\ last'.error = "ok"
                    /\ cash' = 2500 * CENTI
                    /\ positions'["A"].quantity = -150 * CENTI
              /\ last'.rounded = 200 * CENTI =>
                    /\ last'.error = "Insufficient buying power (margin)"
                    /\ UNCHANGED portfolio]_vars

\* The short of 200 was just rejected in the state of the example.
C9_Witness ==
    /\ AfterShort50
    /\ last.op = "enter_position_short"
    /\ last.rounded = 200 * CENTI
    /\ last.error = "Insufficient buying power (margin)"
    /\ cash = 1500 * CENTI

\* The strategy calls the claim prescribes for resolved bar indices s and e:
\* none when s > e, else start, update for s, s+1, ..., e, and end; an update
\* carries the bar's open, high, low and close and its index.
ExpectedCalls(s, e) ==
    IF s > e
    THEN <<>>
    ELSE [k \in 1 .. (e - s + 3) |->
            IF k = 1 THEN [fn |-> "start", i |-> s]
            ELSE IF k = e - s + 3 THEN [fn |-> "end", i |-> e]
            ELSE LET i == s + k - 2
                 IN  [fn |-> "update", i |-> i,
                      args |-> <<Frame[i + 1].open, Frame[i + 1].high,
                                 Frame[i + 1].low, Frame[i + 1].close, i>>]]

\* Whether a recorded call is the expected one.
SameCall(call, expected) ==
    /\ call.fn = expected.fn
    /\ call.fn = "update" => call.args = expected.args

\* C10: Backtest.run(start, end), with s and e the bar indices the two
\* arguments resolve to, makes no strategy call when s > e; otherwise it
\* calls start once, then update once for each i = s, s+1, ..., e in
\* increasing order, then end once.  At every moment of the run the calls
\* made are the first ones of that sequence, and a run that returns has
\* made all of them.
C10_CallSequence ==
    bt.pc # "idle" =>
        LET expected == ExpectedCalls(frame_to_iloc(bt.start_date),
                                      frame_to_iloc(bt.end_date))
        IN  /\ Len(bt.calls) <= Len(expected)
            /\ \A k \in 1 .. Len(bt.calls) : SameCall(bt.calls[k], expected[k])
            /\ bt.pc = "returned" => Len(bt.calls) = Len(expected)

\* A run that returned after start, three updates and end, its start given
\* as a date without a bar of its own and its end as a date past the frame.
C10_Witness ==
    /\ bt.pc = "returned"
    /\ bt.start_date = AtDate(4)
    /\ bt.end_date = AtDate(MaxDay)
    /\ Len(bt.calls) = 5
    /\ bt.calls[2].args[5] = 1
    /\ bt.calls[4].args[5] = 3

-----------------------------------------------------------------------------
(* Properties of the strategy sandbox.                                     *)

\* The constructs the validation is to refuse: an import, a global or
\* nonlocal declaration, an attribute whose name begins with "__" other
\* than __init__, a reference to or a call of a denylisted name.
Offending(node) ==
    \/ node.type \in {"Import", "ImportFrom", "Global", "Nonlocal"}
    \/ node.type = "Attribute" /\ node.name \in {"__class__", "__dict__"}
    \/ node.type \in {"Name", "Call"} /\ node.name \in {"eval", "exec", "open", "getattr",
                                                          "type", "__class__"}

IsImport(node) == node.type \in {"Import", "ImportFrom"}

HasOffence(code) == \E i \in DOMAIN code.walk : Offending(code.walk[i])

HasImport(code) == \E i \in DOMAIN code.walk : IsImport(code.walk[i])

\* The first offending node of the walk is an import.
ImportComesFirst(code) ==
    \E i \in DOMAIN code.walk :
        /\ IsImport(code.walk[i])
        /\ \A j \in 1 .. (i - 1) : ~Offending(code.walk[j])

ImportsMessage(outcome) ==
    /\ outcome.kind = "raise"
    /\ outcome.type = "ValueError"
    /\ outcome.text = "Imports are not allowed in strategy code"

\* C11, as stated: code is executed only after validation passed, a source
\* with an offending construct at any depth fails without any of it being
\* executed, and every source containing an import is rejected with the
\* message 'Imports are not allowed'.
C11_ImportAlwaysNamed ==
    /\ sb.executed => sb.code.parses /\ ~HasOffence(sb.code)
    /\ sb.pc = "returned" /\ HasOffence(sb.code)
          => sb.outcome.kind = "raise" /\ ~sb.executed
    /\ sb.pc = "returned" /\ HasImport(sb.code) => ImportsMessage(sb.outcome)

\* C11, amended: code is executed only after validation passed, a source
\* with an offending construct at any depth fails without any of it being
\* executed, and a source that is not blank, within the length limit and
\* syntactically valid, and whose first offending node in ast.walk order is
\* an import, is rejected with 'Imports are not allowed in strategy code'.
C11_FirstOffenceNamed ==
    /\ sb.executed => sb.code.parses /\ ~HasOffence(sb.code)
    /\ sb.pc = "returned" /\ HasOffence(sb.code)
          => sb.outcome.kind = "raise" /\ ~sb.executed
    /\ ( /\ sb.pc = "returned"
         /\ ~sb.code.blank /\ sb.code.length \in 1 .. STRATEGY_CODE_MAX_LEN
         /\ sb.code.parses
         /\ ImportComesFirst(sb.code) )
          => ImportsMessage(sb.outcome)

\* A source whose second node is an import, after a harmless first node,
\* has been rejected with the message about imports.
C11_Witness ==
    /\ sb.pc = "returned"
    /\ Len(sb.code.walk) = 2
    /\ ~Offending(sb.code.walk[1])
    /\ IsImport(sb.code.walk[2])
    /\ ImportsMessage(sb.outcome)
    /\ ~sb.executed

\* C12: the caller of create_strategy_from_code is never still inside the
\* call once the 30 s deadline has passed, whatever the worker does.
C12_CallerBackByDeadline ==
    sb.pc \in {"waiting", "exiting"} => sb.elapsed <= STRATEGY_EXEC_TIMEOUT

\* The types the code itself binds that inherit from Strategy.
DefinedSubclasses(code) ==
    {code.bindings[i] : i \in DOMAIN code.bindings} \cap {"SubA", "SubB"}

TimedOut(outcome) ==
    /\ outcome.kind = "raise"
    /\ outcome.text = "Strategy execution timed out after %ss"

\* C13: after validated code was executed, what create_strategy_from_code
\* returns is an instance, constructed with the caller's (stock, portfolio),
\* of a type the code defines that inherits from Strategy and is not
\* Strategy; when the code defines no such type, and its module body ended
\* normally before the deadline, the call raises 'Code must define a class
\* that inherits from Strategy'.
C13_InstanceOfDefinedSubclass ==
    sb.pc = "returned" /\ sb.executed =>
        /\ sb.outcome.kind \in {"instance", "raise"}
        /\ sb.outcome.kind = "instance" =>
              /\ sb.outcome.type \in DefinedSubclasses(sb.code)
              /\ sb.outcome.stock = sb.stock
              /\ sb.outcome.portfolio = sb.portfolio
        /\ ( /\ DefinedSubclasses(sb.code) = {}
             /\ sb.code.raises # "body"
             /\ ~TimedOut(sb.outcome) )
              => /\ sb.outcome.kind = "raise"
                 /\ sb.outcome.type = "ValueError"
                 /\ sb.outcome.text = "Code must define a class that inherits from Strategy"

\* A source that binds a plain value and then a subclass has produced an
\* instance of that subclass for stock B.
C13_Witness ==
    /\ sb.pc = "returned"
    /\ sb.executed
    /\ sb.code.bindings = <<"value", "SubB">>
    /\ sb.outcome = [kind |-> "instance", type |-> "SubB", stock |-> "B",
                     portfolio |-> "portfolio"]

-----------------------------------------------------------------------------
(* Properties of the run orchestrator.                                     *)

\* The stored strategy passes the sandbox and raises nothing.
SoundStrategy(o) ==
    /\ o.strat # None
    /\ CreateStrategy(o.strat.code, "A", "portfolio").kind = "instance"
    /\ Replay(o.strat.name, "A", o.cash_per_symbol, StartDate, EndDate).kind = "portfolio"

IsErrorEntry(entry) == "error" \in DOMAIN entry

\* C14: every entry recorded for a symbol that has price data, under a
\* stored strategy that passes the sandbox and raises nothing, is a success
\* entry with start_value = cash_per_symbol = initial_cash / len(symbols)
\* and pnl = end_value - start_value.
C14_SuccessEntry ==
    SoundStrategy(orch) =>
        \A k \in DOMAIN orch.results :
            orch.results[k].symbol \in Symbols =>
                /\ ~IsErrorEntry(orch.results[k])
                /\ orch.results[k].start_value
                      = Rat(settings.initial_cash, Len(orch.symbols))
                /\ orch.results[k].pnl
                      = RatSub(orch.results[k].end_value, orch.results[k].start_value)

\* The row the finished request has stored.
SavedRun == tables.runs[orch.response.run_id]

WalkForward(o) == o.train_end # NoTime /\ o.test_start # NoTime

ValueAsOf(symbol, funds, date) ==
    LET past == SelectSeq(AllFills[symbol], LAMBDA f : f.time <= date)
    IN  IF past = <<>> THEN funds ELSE RatAdd(funds, RatInt(past[Len(past)].delta))

RECURSIVE SumAsOf(_, _, _)
SumAsOf(symbols, funds, date) ==
    IF symbols = <<>> THEN RatInt(0)
    ELSE RatAdd(ValueAsOf(Head(symbols), funds, date), SumAsOf(Tail(symbols), funds, date))

\* C17: when two or more symbols with price data were run under a sound
\* strategy (no walk-forward), the stored equity curve starts with
\* {i: 0, v: initial_cash, time: null} and then has exactly one point per
\* distinct trade date, in ascending order of date, whose value is the sum
\* over the symbols of the symbol's value as of the end of that date.
C17_MergedCurve ==
    ( /\ orch.pc = "returned" /\ ~WalkForward(orch) /\ SoundStrategy(orch)
      /\ Len(orch.symbols) >= 2
      /\ \A k \in DOMAIN orch.symbols : orch.symbols[k] \in Symbols ) =>
        LET curve == loads(SavedRun.portfolio_json).equity_curve
            dates == UNION {{AllFills[orch.symbols[k]][j].time :
                                j \in DOMAIN AllFills[orch.symbols[k]]} :
                                    k \in DOMAIN orch.symbols}
        IN  /\ curve[1] = [i |-> 0, v |-> RatInt(settings.initial_cash), time |-> NoTime]
            /\ Len(curve) = 1 + Cardinality(dates)
            /\ \A q \in 2 .. Len(curve) :
                  /\ curve[q].time \in dates
                  /\ q > 2 => curve[q - 1].time < curve[q].time
                  /\ curve[q].v = SumAsOf(orch.symbols, orch.cash_per_symbol,
                                          curve[q].time)

-----------------------------------------------------------------------------
(* Properties of persistence.                                              *)

\* C18: save_portfolio_state followed by get_portfolio_state and
\* restore_from_state yields the same cash, the same positions (signed
\* quantity, avg_price, realized_pnl), the same realized table, trade log
\* and equity curve.
C18_SaveRestoreRoundTrip ==
    [][(last.op = "save_portfolio" /\ last'.op = "restore_from_state")
          => portfolio' = portfolio]_vars

\* A portfolio holding a short position, with a logged trade, was saved and
\* then restored.
C18_Witness ==
    /\ last.op = "restore_from_state"
    /\ tables.portfolios # None
    /\ trade_log # <<>>
    /\ \E s \in DOMAIN positions : positions[s].quantity < 0

\* C19: a run record saved by save_run and reloaded by get_run has every
\* key of the record built by the orchestrator with the value it was built
\* with (a key whose value was None may be absent); train_pct, train_metrics
\* and test_metrics, results, portfolio and metrics are among the keys.
C19_AllKeysPreserved ==
    orch.loaded # None =>
        \A key \in DOMAIN orch.run_data :
            IF key \in DOMAIN orch.loaded
            THEN orch.loaded[key] = orch.run_data[key]
            ELSE orch.run_data[key] = None

-----------------------------------------------------------------------------
(* Properties of the rate limiter.                                         *)

WindowOf(key) ==
    IF key \in GeneralKeys THEN RATE_LIMIT_GENERAL_WINDOW_SEC
    ELSE RATE_LIMIT_STRATEGY_WINDOW_SEC

LimitOf(key) ==
    IF key \in GeneralKeys THEN RATE_LIMIT_GENERAL_MAX ELSE RATE_LIMIT_STRATEGY_MAX

\* The admitted calls of a key whose times lie in [from, from + window).
AdmittedIn(key, from) ==
    SelectSeq(Get(limiter.admitted, key, <<>>),
              LAMBDA t : from <= t /\ t < from + WindowOf(key))

\* The admitted calls of a key less than a window before the time `at`.
AdmittedBefore(key, at) ==
    Recent(Get(limiter.admitted, key, <<>>), at, WindowOf(key))

\* C20: for every key, the admitted calls within any window of the
\* configured length number at most the limit (100 per 60 s general, 5 per
\* 60 s per user for strategy runs); a call beyond the limit is answered 429
\* at once and is not recorded; a call is admitted whenever fewer than the
\* limit admitted calls remain inside the window.
C20_SlidingWindow ==
    /\ \A key \in GeneralKeys \cup StrategyKeys :
          /\ \A from \in 0 .. MaxNow : Len(AdmittedIn(key, from)) <= LimitOf(key)
          /\ Recent(Get(limiter.store, key, <<>>), limiter.now, WindowOf(key))
                = AdmittedBefore(key, limiter.now)
    /\ limiter.answer = 429 =>
          Len(AdmittedBefore(limiter.key, limiter.at)) >= LimitOf(limiter.key)
    /\ limiter.answer = 200 =>
          /\ Len(AdmittedBefore(limiter.key, limiter.at)) <= LimitOf(limiter.key)
          /\ limiter.admitted[limiter.key][Len(limiter.admitted[limiter.key])] = limiter.at

\* A user's strategy runs were rejected at the limit and, a window later,
\* a run of that user is admitted again.
C20_Witness ==
    /\ limiter.key \in StrategyKeys
    /\ limiter.answer = 200
    /\ limiter.rejected > 0
    /\ Len(Get(limiter.admitted, limiter.key, <<>>)) > RATE_LIMIT_STRATEGY_MAX

-----------------------------------------------------------------------------
(* Properties of authentication.                                           *)

\* C21: when ENVIRONMENT is production, DISABLE_AUTH is false whatever the
\* DISABLE_AUTH variable and the credentials file are, verify_token never
\* returns 'dev-user', and a request without a valid bearer token gets 401.
C21_NoBypassInProduction ==
    Get(auth.environ, "ENVIRONMENT", "development") = "production" =>
        /\ ~auth.DISABLE_AUTH
        /\ auth.pc = "answered" =>
              /\ auth.outcome # Return("dev-user")
              /\ ~ValidToken(auth.credentials) => auth.outcome = HTTPException(401)

\* In production, with DISABLE_AUTH=1 and no credentials file, a request
\* without an Authorization header has been answered.
C21_Witness ==
    /\ Get(auth.environ, "ENVIRONMENT", "development") = "production"
    /\ Lower(Get(auth.environ, "DISABLE_AUTH", "")) \in {"1", "true", "yes"}
    /\ ~_has_firebase_creds(auth.environ)
    /\ auth.pc = "answered"
    /\ auth.credentials.kind = "none"

-----------------------------------------------------------------------------
(* Properties of admission under the constraint set.                       *)

\* The order that `last` holds after an entry was attempted: side, the fill
\* and the amounts of section "Fill pricing" for it, in the state before
\* the attempt.
OrderSide(call) == IF call.op = "enter_position_long" THEN "buy" ELSE "sell"

OrderNotional(call) ==
    (_fill_price(OrderSide(call), price(call.stock, call.index)) * call.rounded) \div CENTI

OrderCommission(call) == _compute_commission(call.rounded, OrderNotional(call))

\* fill x qty + commission for longs, fill x qty for shorts.
OrderTradeValue(call) ==
    IF OrderSide(call) = "buy" THEN OrderNotional(call) + OrderCommission(call)
    ELSE OrderNotional(call)

OrderCashChange(call) ==
    IF OrderSide(call) = "buy" THEN -(OrderNotional(call) + OrderCommission(call))
    ELSE OrderNotional(call) - OrderCommission(call)

\* The documented admission steps, each with whether the order breaches it
\* in the current state and the failure it raises.
AdmissionSteps(call) ==
    LET tv         == OrderTradeValue(call)
        change     == OrderCashChange(call)
        equity_pre == get_value(call.index)
        delta      == IF OrderSide(call) = "buy" THEN call.rounded ELSE -call.rounded
        post_qty   == Get(_positions_view, call.stock, 0) + delta
        after      == IF post_qty = 0 THEN Pop(_positions_view, call.stock)
                      ELSE Put(_positions_view, call.stock, post_qty)
    IN  << [breached |-> call.rounded <= 0, raises |-> "Quantity must be positive"],
           [breached |-> settings.max_order_qty # 0
                            /\ call.rounded > CENTI * settings.max_order_qty,
            raises |-> "Order qty exceeds max_order_qty"],
           [breached |-> settings.min_trade_value # 0 /\ tv < settings.min_trade_value,
            raises |-> "Trade value is below minimum"],
           [breached |-> settings.max_trade_value # 0 /\ tv > settings.max_trade_value,
            raises |-> "Trade value exceeds maximum"],
           [breached |-> /\ call.stock \notin DOMAIN positions
                         /\ settings.max_positions # 0
                         /\ Cardinality(DOMAIN positions) >= settings.max_positions,
            raises |-> "Max positions reached"],
           [breached |-> /\ settings.max_position_pct # 0
                         /\ CENTI * tv > equity_pre * settings.max_position_pct,
            raises |-> "Trade exceeds max_position_pct cap"],
           [breached |-> /\ OrderSide(call) = "buy"
                         /\ settings.min_cash_reserve_pct # 0
                         /\ CENTI * (cash - tv) < equity_pre * settings.min_cash_reserve_pct,
            raises |-> "Trade would violate cash reserve"],
           [breached |-> change < 0 /\ -change > cash,
            raises |-> "Not enough cash to enter position"],
           [breached |-> CENTI * (cash + change)
                            - _reserved_cash_projected100(cash + change, after, call.index) < 0,
            raises |-> "Insufficient buying power (margin)"] >>

Breached(call) == {k \in DOMAIN AdmissionSteps(call) : AdmissionSteps(call)[k].breached}

EarliestBreach(call) ==
    AdmissionSteps(call)[CHOOSE k \in Breached(call) : \A j \in Breached(call) : k <= j]

IsEntry(call) == call.op \in {"enter_position_long", "enter_position_short"}

\* C22: an entry that breaches several of the documented admission steps
\* is refused with the failure of the earliest step it breaches.
C22_EarliestBreachRaised ==
    [][(IsEntry(last') /\ settings.allow_short /\ Cardinality(Breached(last')) >= 2)
          => last'.error = EarliestBreach(last').raises]_vars

\* C23: starting from an empty Portfolio with max_positions = M > 0, the
\* number of distinct open positions never exceeds M, and an order in a
\* symbol that already has a position is never refused for max_positions.
C23_AtMostMaxPositions ==
    [][/\ settings.max_positions # 0 =>
             Cardinality(DOMAIN positions') <= settings.max_positions
       /\ (IsEntry(last') /\ last'.stock \in DOMAIN positions) =>
             last'.error # "Max positions reached"]_vars

\* With max_positions = 1 and one position open, an order in the other
\* symbol was refused for max_positions.
C23_Witness ==
    /\ settings.max_positions = 1
    /\ Cardinality(DOMAIN positions) = 1
    /\ IsEntry(last)
    /\ last.stock \notin DOMAIN positions
    /\ last.error = "Max positions reached"

\* C24: whenever max_position_pct is set, every accepted entry has
\* trade_value <= equity_pre x max_position_pct, equity_pre being the value
\* of the portfolio before the trade at the trade bar, zero and negative
\* values included.
C24_WithinPositionCap ==
    [][(IsEntry(last') /\ last'.error = "ok" /\ settings.max_position_pct # 0)
          => CENTI * OrderTradeValue(last')
                <= get_value(last'.index) * settings.max_position_pct]_vars

-----------------------------------------------------------------------------
(* Properties of entries against an opposite position.                     *)

\* The fill price of the entry that `last` holds.
EntryFill(call) == _fill_price(OrderSide(call), price(call.stock, call.index))

\* The realized pnl of the latest trade event.
EventPnl(log) == log[Len(log)].realized_pnl

\* An accepted entry against a position of the opposite sign.
Against(call) ==
    /\ IsEntry(call)
    /\ call.error = "ok"
    /\ call.stock \in DOMAIN positions
    /\ IF OrderSide(call) = "buy" THEN positions[call.stock].quantity < 0
       ELSE positions[call.stock].quantity > 0

\* C25: an accepted buy of qty against a short q0 with basis a0 covers
\* min(qty, |q0|) and realizes (a0 - fill) x covered; a larger buy leaves a
\* long of qty - |q0| with basis fill, an equal one removes the position, a
\* smaller one leaves the short with basis a0.  An accepted short against a
\* long is the mirror image, realizing (fill - a0) x sold.
C25_OppositeEntry ==
    [][Against(last') =>
         LET s       == last'.stock
             qty     == last'.rounded
             q0      == positions[s].quantity
             a0      == positions[s].avg_price
             fill    == RatInt(EntryFill(last'))
             closed  == Min(qty, Abs(q0))
             sign    == IF q0 < 0 THEN 1 ELSE -1
             move    == IF q0 < 0 THEN RatSub(a0, fill) ELSE RatSub(fill, a0)
         IN  /\ EventPnl(trade_log') = RatTimesQty(move, closed)
             /\ qty > Abs(q0) =>
                   /\ s \in DOMAIN positions'
                   /\ positions'[s].quantity = sign * (qty - Abs(q0))
                   /\ positions'[s].avg_price = fill
             /\ qty = Abs(q0) => s \notin DOMAIN positions'
             /\ qty < Abs(q0) =>
                   /\ s \in DOMAIN positions'
                   /\ positions'[s].quantity = q0 + sign * qty
                   /\ positions'[s].avg_price = a0]_vars

\* A short was bought through: the second trade is a larger buy in the
\* symbol of the first, a short, and the position is now long.
C25_Witness ==
    /\ Len(trade_log) = 2
    /\ trade_log[1].type = "short"
    /\ trade_log[2].type = "long"
    /\ trade_log[2].stock = trade_log[1].stock
    /\ trade_log[2].quantity > trade_log[1].quantity
    /\ trade_log[2].fill_price # trade_log[1].fill_price
    /\ trade_log[2].stock \in DOMAIN positions
    /\ positions[trade_log[2].stock].quantity > 0

\* C26: once auto-liquidation has ended a symbol's leg without error, the
\* portfolio holds no position in that symbol, whatever the quantity that
\* remained (fractions included), and its value at the end bar is its cash.
C26_NoPositionAfterLiquidation ==
    (last.op = "auto_liquidate" /\ last.error = "ok")
        => last.stock \notin DOMAIN positions

\* The bar indices a sequence of strategy calls passed to update.
UpdatedBars(calls) ==
    {calls[k].args[5] : k \in {j \in DOMAIN calls : calls[j].fn = "update"}}

\* C27: in a walk-forward run no bar index is passed to strategy.update in
\* both legs, and once the test leg has returned every bar of the
\* requested window was replayed, in exactly one leg.
C27_LegsPartitionWindow ==
    orch.pc = "test"
        => /\ UpdatedBars(bt.train_calls) \cap UpdatedBars(bt.calls) = {}
           /\ bt.pc = "returned"
                  => UpdatedBars(bt.train_calls) \cup UpdatedBars(bt.calls)
                        = CandleRange(frame_to_iloc(AtDate(orch.req.start_date)),
                                      frame_to_iloc(AtDate(orch.req.end_date)))

\* The requested symbols that have price data.
WithData(o) == {k \in DOMAIN o.symbols : o.symbols[k] \in Symbols}

\* C28: when exactly one requested symbol has price data and the strategy
\* is sound, the stored equity curve is {i: 0, v: initial_cash,
\* time: start_date} followed by the points of that symbol's portfolio in
\* order, and the point after the k-th fill (i = k) carries the date of the
\* k-th trade of its trade log.
C28_SingleCurve ==
    (orch.pc = "returned" /\ SoundStrategy(orch) /\ Cardinality(WithData(orch)) = 1) =>
        LET curve  == loads(SavedRun.portfolio_json).equity_curve
            symbol == orch.symbols[CHOOSE k \in WithData(orch) : TRUE]
            port   == Replay(orch.strat.name, symbol, orch.cash_per_symbol,
                             IF WalkForward(orch) THEN orch.test_start ELSE StartDate,
                             EndDate)
        IN  /\ curve[1] = [i |-> 0, v |-> RatInt(settings.initial_cash),
                           time |-> StartDate]
            /\ Len(curve) = 1 + Len(port.equity_curve)
            /\ \A k \in DOMAIN port.equity_curve :
                  /\ curve[k + 1].i = k
                  /\ curve[k + 1].v = port.equity_curve[k].v
                  /\ curve[k + 1].time = port.trade_log[k].time

\* C29: when no symbol of a finished run succeeded, the stored equity curve
\* is exactly [{i: 0, v: initial_cash, time: null},
\* {i: 1, v: initial_cash, time: end_date}].
C29_FlatCurve ==
    (orch.pc = "returned" /\ \A k \in DOMAIN orch.results : IsErrorEntry(orch.results[k])) =>
        loads(SavedRun.portfolio_json).equity_curve
            = <<[i |-> 0, v |-> RatInt(settings.initial_cash), time |-> NoTime],
                [i |-> 1, v |-> RatInt(settings.initial_cash), time |-> orch.req.end_date]>>

\* The number of items of a sequence equal to v.
Count(times, v) == Cardinality({j \in DOMAIN times : times[j] = v})

\* The items of the list the table holds under the user's key.
TableTimes ==
    IF "strategy:user" \in DOMAIN limiter.store
    THEN limiter.heap[limiter.store["strategy:user"]] ELSE <<>>

\* C30: whatever the interleaving of the threads' _check_rate_limit
\* executions, at most 5 runs of the user are admitted within any 60 s
\* window, and every admitted timestamp that is still inside the window is
\* in the table.
C30_ConsistentUnderThreads ==
    LET admitted == Get(limiter.admitted, "strategy:user", <<>>)
    IN  /\ \A j \in DOMAIN admitted :
              Cardinality({q \in DOMAIN admitted :
                              /\ admitted[q] <= admitted[j]
                              /\ admitted[j] - admitted[q] < RATE_LIMIT_STRATEGY_WINDOW_SEC})
                  <= RATE_LIMIT_STRATEGY_MAX
        /\ \A j \in DOMAIN admitted :
              limiter.now - admitted[j] < RATE_LIMIT_STRATEGY_WINDOW_SEC
                  => Count(TableTimes, admitted[j]) >= Count(admitted, admitted[j])

\* The requests made with a header that were let through less than a
\* window before the clock reading `now`.
LetThrough(header, now) ==
    Cardinality({j \in DOMAIN Get(limiter.by_header, header, <<>>) :
                    now - limiter.by_header[header][j] < RATE_LIMIT_GENERAL_WINDOW_SEC})

\* C31: a request bearing a token is rejected with 429 only on account of
\* the requests made with that same token: when it is rejected, 100 requests
\* with its own Authorization header were let through within the window.
C31_BucketPerToken ==
    (limiter.answer = 429 /\ limiter.header # <<>>)
        => LetThrough(limiter.header, limiter.at) >= RATE_LIMIT_GENERAL_MAX

\* C32: a Stock that get_stock returns was loaded from the data provider
\* at most STOCK_CACHE_TTL_SEC before the call.
C32_NoStaleStock ==
    cache.returned.kind = "stock"
        => cache.returned.at - cache.returned.loaded <= STOCK_CACHE_TTL_SEC

\* C33: with get_stock running on several threads, no call ends in the
\* KeyError of an entry removed under it, an entry evicted on overflow is
\* one of the least recently used at the time it is removed, and the cache
\* holds at most STOCK_CACHE_MAX symbols when a call ends.
C33_AtomicCache ==
    /\ cache.returned.kind # "KeyError"
    /\ cache.evicted.kind = "entry" => cache.evicted.ts = cache.evicted.oldest
    /\ cache.returned.kind # "none" => cache.returned.size <= STOCK_CACHE_MAX


-----------------------------------------------------------------------------
(* Properties of authentication outside production.                        *)

\* C34: outside production DISABLE_AUTH is true only if the DISABLE_AUTH
\* variable says so ("1", "true", "yes"); when the variable is unset, a
\* request without a valid bearer token is answered 401, with or without a
\* credentials file.
C34_BypassOnlyIfExplicit ==
    ~IS_PRODUCTION(auth.environ) =>
        /\ auth.DISABLE_AUTH =>
              Lower(Get(auth.environ, "DISABLE_AUTH", "")) \in {"1", "true", "yes"}
        /\ ( /\ auth.pc = "answered"
             /\ "DISABLE_AUTH" \notin DOMAIN auth.environ
             /\ ~ValidToken(auth.credentials) ) => auth.outcome = HTTPException(401)


-----------------------------------------------------------------------------
(* Properties of the per-symbol table.                                     *)

\* The events of a log that belong to a symbol, and those of them that are
\* exits.
EventsOf(log, symbol) == {i \in DOMAIN log : Upper(log[i].stock) = symbol}

ExitsOf(log, symbol) == {i \in EventsOf(log, symbol) : Lower(log[i].type) = "exit"}

\* The table has one record per symbol of the log, with the counts and
\* the net realized P&L of that symbol.
OneRecordPerSymbol(log, out) ==
    /\ {out[i].symbol : i \in DOMAIN out} = {Upper(log[i].stock) : i \in DOMAIN log} \ {""}
    /\ \A i, j \in DOMAIN out : out[i].symbol = out[j].symbol => i = j
    /\ \A i \in DOMAIN out :
          /\ out[i].trades = Cardinality(EventsOf(log, out[i].symbol))
          /\ out[i].exits = Cardinality(ExitsOf(log, out[i].symbol))
          /\ out[i].net_realized =
                SumOver([k \in DOMAIN log |-> log[k].realized_pnl],
                        ExitsOf(log, out[i].symbol))

\* C35: compute_symbol_breakdown returns one record per symbol of the trade
\* log (trades counts all its events, exits and net_realized its exit
\* events), ordered by net_realized descending and, among symbols with equal
\* net_realized, by symbol ascending.
C35_BreakdownOrdered ==
    orch.symbols_table.kind = "return" =>
        LET out == orch.symbols_table.value
        IN  /\ OneRecordPerSymbol(orch.combined_trade_log, out)
            /\ \A i, j \in DOMAIN out :
                  i < j => \/ out[i].net_realized > out[j].net_realized
                           \/ /\ out[i].net_realized = out[j].net_realized
                              /\ StrLess(out[i].symbol, out[j].symbol)


-----------------------------------------------------------------------------
(* Properties of rejected orders.                                          *)

OrderOps == {"enter_position_long", "enter_position_short", "exit_position"}

\* C36: an order that is rejected with a ValueError (bad quantity, a
\* constraint, short selling disabled, cash, margin, no position, an exit
\* larger than the position) leaves cash, positions, the realized table,
\* trade_log and equity_curve as they were before the call.
C36_RejectedOrderChangesNothing ==
    [][(last'.op \in OrderOps /\ last'.error # "ok") => UNCHANGED portfolio]_vars

\* An exit larger than the open position has been rejected after a fill.
C36_Witness ==
    /\ last.op = "exit_position"
    /\ last.error = "Quantity exceeds position size"
    /\ trade_log # <<>>
    /\ DOMAIN positions # {}


-----------------------------------------------------------------------------
(* Properties of the value of the portfolio across a fill.                 *)

\* The side a filled order trades on, taken in the state before the fill:
\* an exit sells a long position and buys back a short one.
FillSide(call) ==
    CASE call.op = "enter_position_long" -> "buy"
      [] call.op = "enter_position_short" -> "sell"
      [] OTHER -> IF positions[call.stock].quantity > 0 THEN "sell" ELSE "buy"

FillNotional(call) ==
    (_fill_price(FillSide(call), price(call.stock, call.index)) * call.rounded) \div CENTI

FillCommission(call) == _compute_commission(call.rounded, FillNotional(call))

\* |fill - raw| x qty, in cents.
SlippagePaid(call) ==
    (Abs(_fill_price(FillSide(call), price(call.stock, call.index))
            - CENTI * price(call.stock, call.index)) * call.rounded) \div CENTI

Filled(call) == call.op \in OrderOps /\ call.error = "ok"

\* C37: a fill at bar t changes get_value(t) by exactly
\* -(commission + |fill - raw| x qty) and never increases it; with zero
\* slippage and zero commission get_value(t) is the same before and after
\* a long, short or exit fill at bar t.
C37_FillCostsItsFrictions ==
    [][Filled(last') =>
          LET before == get_value(last'.index)
              after  == cash' + MarketValue(_positions_view', last'.index)
          IN  /\ after - before = -(FillCommission(last') + SlippagePaid(last'))
              /\ after <= before
              /\ (FillCommission(last') = 0 /\ settings.slippage = 0) => after = before]_vars


-----------------------------------------------------------------------------
(* Properties of the realized table.                                       *)

\* The sum of realized_pnl over the events of a symbol in the log.
RECURSIVE LoggedRealized(_, _)
LoggedRealized(log, symbol) ==
    IF log = <<>> THEN Zero
    ELSE IF Head(log).stock = symbol
         THEN RatAdd(Head(log).realized_pnl, LoggedRealized(Tail(log), symbol))
         ELSE LoggedRealized(Tail(log), symbol)

\* C38: after any sequence of fills since creation or clear_history, the
\* realized table entry of every symbol equals the sum of realized_pnl over
\* the symbol's trade_log events (0 when absent), and the realized_pnl
\* field of every open position equals the table entry of its symbol.
C38_RealizedMatchesLog ==
    /\ \A symbol \in Symbols :
          Get(realized, symbol, Zero) = LoggedRealized(trade_log, symbol)
    /\ \A symbol \in DOMAIN positions :
          positions[symbol].realized_pnl = Get(realized, symbol, Zero)

\* A position is still open in a symbol that has realized a profit or a
\* loss, after two fills in that symbol.
C38_Witness ==
    \E symbol \in DOMAIN positions :
        /\ Get(realized, symbol, Zero) # Zero
        /\ positions[symbol].realized_pnl # Zero
        /\ Cardinality({i \in DOMAIN trade_log : trade_log[i].stock = symbol}) >= 2


-----------------------------------------------------------------------------
(* Properties of a Portfolio without short selling.                        *)

\* C39: from a Portfolio with no short position and allow_short = false, no
\* sequence of enter_position_long, enter_position_short and exit_position
\* calls produces a position of negative quantity: enter_position_short
\* raises "Short selling is disabled" every time, and exit_position does
\* not take a quantity through zero.
C39_NoShortWhenDisabled ==
    ~settings.allow_short =>
        /\ \A symbol \in DOMAIN positions : positions[symbol].quantity >= 0
        /\ last.op = "enter_position_short" => last.error = "Short selling is disabled"
        /\ (last.op = "exit_position" /\ last.error = "ok") =>
              Get(_positions_view, last.stock, 0) >= 0

\* With short selling disabled, a sell larger than the long position held
\* has just been attempted.
C39_Witness ==
    /\ ~settings.allow_short
    /\ last.op = "enter_position_short"
    /\ last.stock \in DOMAIN positions
    /\ last.rounded > positions[last.stock].quantity


-----------------------------------------------------------------------------
(* Properties of PUT /settings.                                            *)

\* The request just answered carries a field that fails its test.
HasInvalidField(upd) == \E field \in DOMAIN upd : ~FieldValid(field, upd[field])

\* C40: PUT /settings is all-or-nothing: a request with an invalid field
\* (a valid initial_cash together with slippage >= 1, for one) is rejected
\* with 400 and changes neither the user's persisted settings nor the
\* user's persisted portfolio.
C40_SettingsAllOrNothing ==
    [][(orch'.req.kind = "settings" /\ HasInvalidField(orch'.req.upd)) =>
          /\ orch'.status_code = 400
          /\ tables'.settings = tables.settings
          /\ tables'.portfolios = tables.portfolios]_vars

====
